---------------------------- MODULE Spec2Model ----------------------------
(***************************************************************************)
(* Model of the Wahoo BLE -> Unity bridge                                  *)
(* (src/UnityIntegration/wahoo_unity_bridge.py).                           *)
(*                                                                         *)
(* The bridge is a single-threaded asyncio program.  A notification        *)
(* callback runs to completion, builds a CyclingData snapshot from the     *)
(* snapshot it reads and hands it to asyncio.create_task(broadcast_data):  *)
(* the task is appended to the loop's ready queue and commits the          *)
(* snapshot when the loop gets to it.  zero_detection_loop wakes from      *)
(* asyncio.sleep(0.5) and awaits broadcast_data inline, so its read of the *)
(* snapshot and its commit are one step.                                   *)
(*                                                                         *)
(* The program's durations are written in tenths of a second.  Time        *)
(* advances in ticks, TicksPerPoll of them to one asyncio.sleep(0.5), and  *)
(* is kept relative to "now": time_since_update[h] is                      *)
(* time.time() - h.last_update_time in ticks, a snapshot's timestamp is    *)
(* kept as its age, and both are capped where the code can no longer tell  *)
(* the difference.                                                         *)
(*                                                                         *)
(* cadence and speed are Python floats; the model keeps them as exact      *)
(* fractions <<numerator, denominator>> in lowest terms.                   *)
(***************************************************************************)
EXTENDS Integers, Sequences, FiniteSets, TLC

(***************************************************************************)
(* Bounds of the model.                                                    *)
(***************************************************************************)
\* broadcast tasks that may wait in the event loop's ready queue at once
MaxPending == 2
\* a snapshot's timestamp age is tracked up to this many ticks
MaxStampAge == 1
\* messages a consumer is sent before the producers pause
MaxReceived == 2

\* the clock's resolution: ticks to one poll interval
TicksPerPoll == 1

(***************************************************************************)
(* Program constants, in tenths of a second.                               *)
(***************************************************************************)
\* self.zero_timeout = 1.2
ZeroTimeout == 12
\* await asyncio.sleep(0.5)
PollInterval == 5

\* Optional[...] = None.  The tracker fields are non-negative when set;
\* a calculator's return value is None or a fraction.
Unset == -1

UnsetWords == <<Unset, Unset>>

None == <<>>

(***************************************************************************)
(* Exact fractions for Python floats.                                      *)
(***************************************************************************)
RECURSIVE Gcd(_, _)
Gcd(a, b) == IF b = 0 THEN a ELSE Gcd(b, a % b)

Frac(n, d) == LET g == Gcd(n, d) IN <<n \div g, d \div g>>

FZero == <<0, 1>>

FPos(x) == x[1] > 0

\* x < y, for fractions with positive denominators
FLess(x, y) == x[1] * y[2] < y[1] * x[2]

FAdd(x, y) == Frac(x[1] * y[2] + y[1] * x[2], x[2] * y[2])

FMin(x, y) == IF FLess(y, x) THEN y ELSE x

FMax(x, y) == IF FLess(x, y) THEN y ELSE x

(***************************************************************************)
(* Bytes.  data[a:b] is Python's slice: it stops at the end of the data.   *)
(***************************************************************************)
Min(a, b) == IF a < b THEN a ELSE b

Slice(data, a, b) == SubSeq(data, a + 1, Min(b, Len(data)))

\* int.from_bytes(bytes, byteorder='little')
RECURSIVE FromBytesLE(_)
FromBytesLE(bytes) ==
    IF bytes = <<>> THEN 0
    ELSE Head(bytes) + 256 * FromBytesLE(Tail(bytes))

\* a variant under which C28 must fail: the two bytes taken as unsigned
FromBytesLESigned16_Unsigned(bytes) == FromBytesLE(bytes)

\* int.from_bytes(bytes, byteorder='little', signed=True), two bytes
FromBytesLESigned16(bytes) ==
    LET u == FromBytesLE(bytes)
    IN  IF u >= 32768 THEN u - 65536 ELSE u

\* flags & mask, for a one-bit mask
HasBit(flags, mask) == (flags \div mask) % 2 = 1


(***************************************************************************)
(* The decoders.  A parse result is a Python dict: a function from the     *)
(* recognized field names to their values; {} is the empty function.       *)
(* wheel_revs is a uint32, kept as its 16-bit words <<low, high>>.         *)
(***************************************************************************)
EmptyDict == [k \in {} |-> 0]

\* CyclingPowerParser.parse
CyclingPowerParse(data) ==
    IF Len(data) < 4 THEN EmptyDict
    ELSE
      LET flags  == FromBytesLE(Slice(data, 0, 2))
          power  == FromBytesLESigned16(Slice(data, 2, 4))
          off0   == 4
          off1   == IF HasBit(flags, 1) THEN off0 + 1 ELSE off0
          off2   == IF HasBit(flags, 4) THEN off1 + 2 ELSE off1
          wheel  == HasBit(flags, 16) /\ Len(data) >= off2 + 6
          off3   == IF wheel THEN off2 + 6 ELSE off2
          crank  == HasBit(flags, 32) /\ Len(data) >= off3 + 4
          rPower == "power" :> power
          rWheel == IF wheel
                    THEN ("wheel_revs" :>
                             << FromBytesLE(Slice(data, off2, off2 + 2)),
                                FromBytesLE(Slice(data, off2 + 2, off2 + 4)) >>)
                         @@ ("wheel_time" :>
                                FromBytesLE(Slice(data, off2 + 4, off2 + 6)))
                    ELSE EmptyDict
          rCrank == IF crank
                    THEN ("crank_revs" :>
                             FromBytesLE(Slice(data, off3, off3 + 2)))
                         @@ ("crank_time" :>
                                FromBytesLE(Slice(data, off3 + 2, off3 + 4)))
                    ELSE EmptyDict
      IN  rPower @@ rWheel @@ rCrank

\* a variant under which C21 must fail: one byte is enough to go on
HeartRateParse_NoMinimum(data) ==
    IF Len(data) < 1 THEN EmptyDict
    ELSE "bpm" :> FromBytesLE(Slice(data, 1, 3))

\* HeartRateParser.parse
HeartRateParse(data) ==
    IF Len(data) < 2 THEN EmptyDict
    ELSE
      LET flags     == data[1]
          hr_format == flags % 2
          bpm       == IF hr_format = 0 THEN data[2]
                       ELSE FromBytesLE(Slice(data, 1, 3))
      IN  "bpm" :> bpm

(***************************************************************************)
(* What a decode call does to its payload and how it ends.  An access is   *)
(* <<offset, size>>: the bytes a slice asks for, or struct.unpack_from     *)
(* reads.  unpack_from raises struct.error when its bytes are not all      *)
(* there; a slice never raises.                                            *)
(***************************************************************************)
\* a variant under which C20 must fail: no length is ever checked
Fits_Always(data, offset, size) == TRUE

\* len(data) >= offset + size
Fits(data, offset, size) == Len(data) >= offset + size

\* the indexes of an access
Span(access) == access[1] .. (access[1] + access[2] - 1)

\* the indexes a set of accesses covers
Indexes(accesses) == UNION {Span(access) : access \in accesses}

\* the call returns the dict
Returned(fields) == [raised |-> FALSE, fields |-> fields]

\* an exception leaves the call
Raised == [raised |-> TRUE, fields |-> EmptyDict]

\* some struct.unpack_from of the call finds its bytes missing
StructError(data, unpacks) ==
    \E access \in unpacks : ~(Len(data) >= access[1] + access[2])

\* the slices CyclingPowerParser.parse of the bridge takes
CyclingPowerSlices(data) ==
    IF Len(data) < 4 THEN {}
    ELSE
      LET flags  == FromBytesLE(Slice(data, 0, 2))
          off1   == IF HasBit(flags, 1) THEN 4 + 1 ELSE 4
          off2   == IF HasBit(flags, 4) THEN off1 + 2 ELSE off1
          wheel  == HasBit(flags, 16) /\ Fits(data, off2, 6)
          off3   == IF wheel THEN off2 + 6 ELSE off2
          crank  == HasBit(flags, 32) /\ Fits(data, off3, 4)
      IN  {<<0, 2>>, <<2, 2>>}
            \cup (IF wheel THEN {<<off2, 4>>, <<off2 + 4, 2>>} ELSE {})
            \cup (IF crank THEN {<<off3, 2>>, <<off3 + 2, 2>>} ELSE {})

(***************************************************************************)
(* The decoders of the logger, wahoo_ble_logger.py.                        *)
(***************************************************************************)
\* int((rr_1024 / 1024.0) * 1000): exact in a double, then truncated
RRMilliseconds(rr_1024) == (rr_1024 * 1000) \div 1024

\* a variant under which C23 must fail: the first RR field only
RRIntervals_FirstOnly(data, offset) ==
    IF offset + 1 < Len(data)
    THEN <<RRMilliseconds(FromBytesLE(Slice(data, offset, offset + 2)))>>
    ELSE <<>>

\* while offset + 1 < len(data): unpack, append, offset += 2
RECURSIVE RRIntervals(_, _)
RRIntervals(data, offset) ==
    IF offset + 1 < Len(data)
    THEN <<RRMilliseconds(FromBytesLE(Slice(data, offset, offset + 2)))>>
            \o RRIntervals(data, offset + 2)
    ELSE <<>>

\* the struct.unpack_from calls HeartRateParser.parse of the logger makes
LoggerHeartRateUnpacks(data) ==
    IF Len(data) < 2 THEN {}
    ELSE
      LET flags  == data[1]
          wide   == flags % 2 = 1
          offset == IF wide THEN 3 ELSE 2
          has_rr == HasBit(flags, 16) /\ Len(data) >= offset + 2
      IN  (IF wide THEN {<<1, 2>>} ELSE {})
            \cup (IF has_rr /\ (~wide \/ Len(data) >= 3)
                  THEN {<<o, 2>> : o \in {o \in offset .. Len(data) :
                                            /\ o + 1 < Len(data)
                                            /\ (o - offset) % 2 = 0}}
                  ELSE {})

\* HeartRateParser.parse of the logger: no try around its unpack_from calls
LoggerHeartRateParse(data) ==
    IF Len(data) < 2 THEN Returned(EmptyDict)
    ELSE IF StructError(data, LoggerHeartRateUnpacks(data)) THEN Raised
    ELSE
      LET flags  == data[1]
          wide   == flags % 2 = 1
          bpm    == IF wide THEN FromBytesLE(Slice(data, 1, 3)) ELSE data[2]
          offset == IF wide THEN 3 ELSE 2
          has_rr == HasBit(flags, 16) /\ Len(data) >= offset + 2
          rr     == RRIntervals(data, offset)
      IN  Returned(("bpm" :> bpm)
                     @@ (IF has_rr /\ rr # <<>>
                         THEN "rr_intervals_ms" :> rr ELSE EmptyDict))

\* a variant under which C29 must fail: a field is taken whenever its bytes
\* are there, flagged or not
Field_Unflagged(data, flagged, offset, width) == offset + width - 1 < Len(data)

\* an optional field of `width` bytes is skipped or read when it is flagged
\* and offset + width - 1 < len(data)
Field(data, flagged, offset, width) ==
    flagged /\ offset + width - 1 < Len(data)

\* CyclingPowerParser.parse of the logger, up to the crank data; the fields
\* flagged by the higher bits only move the offset
LoggerCyclingPowerScan(data) ==
    LET flags  == FromBytesLE(Slice(data, 0, 2))
        power  == Field(data, TRUE, 2, 2)
        off0   == IF power THEN 4 ELSE 2
        off1   == IF Field(data, HasBit(flags, 1), off0, 1) THEN off0 + 1 ELSE off0
        off2   == IF Field(data, HasBit(flags, 4), off1, 2) THEN off1 + 2 ELSE off1
        off3   == IF Field(data, HasBit(flags, 16), off2, 6) THEN off2 + 6 ELSE off2
        crank  == Field(data, HasBit(flags, 32), off3, 4)
    IN  [unpacks |-> {<<0, 2>>}
                       \cup (IF power THEN {<<2, 2>>} ELSE {})
                       \cup (IF crank THEN {<<off3, 2>>, <<off3 + 2, 2>>} ELSE {}),
         fields  |-> IF power
                     THEN "power_w" :> FromBytesLESigned16(Slice(data, 2, 4))
                     ELSE EmptyDict]

\* CyclingPowerParser.parse of the logger: struct.error is caught, {} returned
LoggerCyclingPowerParse(data) ==
    IF Len(data) < 4 THEN Returned(EmptyDict)
    ELSE IF StructError(data, LoggerCyclingPowerScan(data).unpacks)
         THEN Returned(EmptyDict)
         ELSE Returned(LoggerCyclingPowerScan(data).fields)

\* FTMSIndoorBikeParser.parse, up to the instantaneous power; the fields
\* after it only move the offset
IndoorBikeScan(data) ==
    LET flags   == FromBytesLE(Slice(data, 0, 2))
        speed   == Field(data, TRUE, 2, 2)
        off1    == IF speed THEN 4 ELSE 2
        off2    == IF Field(data, HasBit(flags, 2), off1, 2) THEN off1 + 2 ELSE off1
        cadence == Field(data, HasBit(flags, 4), off2, 2)
        off3    == IF cadence THEN off2 + 2 ELSE off2
        off4    == IF Field(data, HasBit(flags, 8), off3, 2) THEN off3 + 2 ELSE off3
        off5    == IF Field(data, HasBit(flags, 16), off4, 3) THEN off4 + 3 ELSE off4
        off6    == IF Field(data, HasBit(flags, 32), off5, 2) THEN off5 + 2 ELSE off5
        power   == Field(data, HasBit(flags, 64), off6, 2)
    IN  [unpacks |-> {<<0, 2>>}
                       \cup (IF speed THEN {<<2, 2>>} ELSE {})
                       \cup (IF cadence THEN {<<off2, 2>>} ELSE {})
                       \cup (IF power THEN {<<off6, 2>>} ELSE {}),
         fields  |-> (IF speed
                      THEN "speed_kph" :>
                              Frac(FromBytesLE(Slice(data, 2, 4)), 100)
                      ELSE EmptyDict)
                     @@ (IF cadence
                         THEN "cadence_rpm" :>
                                 Frac(FromBytesLE(Slice(data, off2, off2 + 2)), 2)
                         ELSE EmptyDict)
                     @@ (IF power
                         THEN "power_w" :>
                                 FromBytesLESigned16(Slice(data, off6, off6 + 2))
                         ELSE EmptyDict)]

\* FTMSIndoorBikeParser.parse: struct.error is caught, {} returned
IndoorBikeParse(data) ==
    IF Len(data) < 2 THEN Returned(EmptyDict)
    ELSE IF StructError(data, IndoorBikeScan(data).unpacks)
         THEN Returned(EmptyDict)
         ELSE Returned(IndoorBikeScan(data).fields)

(***************************************************************************)
(* The rate calculators.  Each returns the value the method returns (ret,  *)
(* None or a fraction) and the tracker fields as the call leaves them.     *)
(***************************************************************************)
\* a variant under which C16 must fail: the difference taken one bit wider
Sub16_Wide(a, b) == (a - b) % 131072

\* (a - b) & 0xFFFF
Sub16(a, b) == (a - b) % 65536

\* (a - b) & 0xFFFFFFFF on <<low, high>> words
Sub32(a, b) ==
    LET borrow == IF a[1] < b[1] THEN 1 ELSE 0
    IN  << (a[1] - b[1]) % 65536, (a[2] - b[2] - borrow) % 65536 >>

\* a variant under which C37 must fail: the revolutions are bounded, the
\* rate is not
CadencePlausible_AnyRate(rev_diff, time_diff) == rev_diff <= 271

\* 0 < (rev_diff * 1024 * 60) / time_diff < 255, for rev_diff, time_diff > 0.
\* 255 * time_diff <= 255 * 65535 < 272 * 61440, so rev_diff >= 272 is out.
CadencePlausible(rev_diff, time_diff) ==
    rev_diff <= 271 /\ rev_diff * 61440 < 255 * time_diff

\* a variant under which C15 must fail: the seeding call returns a rate of 0
CalculateCadence_SeedRate(last_revs, last_time, crank_revs, crank_time) ==
    IF last_revs = Unset \/ last_time = Unset
    THEN [ret |-> FZero, revs |-> crank_revs, time |-> crank_time]
    ELSE
      LET rev_diff  == Sub16(crank_revs, last_revs)
          time_diff == Sub16(crank_time, last_time)
      IN  IF time_diff = 0 \/ rev_diff = 0
          THEN [ret |-> None, revs |-> last_revs, time |-> last_time]
          ELSE [ret  |-> IF CadencePlausible(rev_diff, time_diff)
                         THEN Frac(rev_diff * 61440, time_diff)
                         ELSE None,
                revs |-> crank_revs, time |-> crank_time]

\* a variant under which C14 must fail: a repeated count or event time
\* still moves the tracker
CalculateCadence_ZeroAdvances(last_revs, last_time, crank_revs, crank_time) ==
    IF last_revs = Unset \/ last_time = Unset
    THEN [ret |-> None, revs |-> crank_revs, time |-> crank_time]
    ELSE
      LET rev_diff  == Sub16(crank_revs, last_revs)
          time_diff == Sub16(crank_time, last_time)
      IN  [ret  |-> IF time_diff # 0 /\ rev_diff # 0
                       /\ CadencePlausible(rev_diff, time_diff)
                    THEN Frac(rev_diff * 61440, time_diff)
                    ELSE None,
           revs |-> crank_revs, time |-> crank_time]

\* WahooDeviceHandler.calculate_cadence
CalculateCadence(last_revs, last_time, crank_revs, crank_time) ==
    IF last_revs = Unset \/ last_time = Unset
    THEN [ret |-> None, revs |-> crank_revs, time |-> crank_time]
    ELSE
      LET rev_diff  == Sub16(crank_revs, last_revs)
          time_diff == Sub16(crank_time, last_time)
      IN  IF time_diff = 0 \/ rev_diff = 0
          THEN [ret |-> None, revs |-> last_revs, time |-> last_time]
          ELSE [ret  |-> IF CadencePlausible(rev_diff, time_diff)
                         THEN Frac(rev_diff * 61440, time_diff)
                         ELSE None,
                revs |-> crank_revs, time |-> crank_time]

\* 0 < rev_diff * 2.105 * 1024 / time_diff * 3.6 < 100, for a nonzero
\* rev_diff and time_diff > 0: 2.105 * 1024 * 3.6 = 969984 / 125, and
\* 12500 * time_diff <= 12500 * 65535 < 845 * 969984.
SpeedPlausible(rev_diff, time_diff) ==
    /\ rev_diff[2] = 0
    /\ rev_diff[1] <= 844
    /\ rev_diff[1] * 969984 < 12500 * time_diff

\* a variant under which C17 must fail: the speed left in m/s
\* (2.105 * 1024 = 269440 / 125)
CalculateSpeed_MetresPerSecond(last_revs, last_time, wheel_revs, wheel_time) ==
    IF last_revs = UnsetWords \/ last_time = Unset
    THEN [ret |-> None, revs |-> wheel_revs, time |-> wheel_time]
    ELSE
      LET rev_diff  == Sub32(wheel_revs, last_revs)
          time_diff == Sub16(wheel_time, last_time)
      IN  IF time_diff = 0 \/ rev_diff = <<0, 0>>
          THEN [ret |-> None, revs |-> last_revs, time |-> last_time]
          ELSE [ret  |-> IF SpeedPlausible(rev_diff, time_diff)
                         THEN Frac(rev_diff[1] * 269440, 125 * time_diff)
                         ELSE None,
                revs |-> wheel_revs, time |-> wheel_time]

\* WahooDeviceHandler.calculate_speed
CalculateSpeed(last_revs, last_time, wheel_revs, wheel_time) ==
    IF last_revs = UnsetWords \/ last_time = Unset
    THEN [ret |-> None, revs |-> wheel_revs, time |-> wheel_time]
    ELSE
      LET rev_diff  == Sub32(wheel_revs, last_revs)
          time_diff == Sub16(wheel_time, last_time)
      IN  IF time_diff = 0 \/ rev_diff = <<0, 0>>
          THEN [ret |-> None, revs |-> last_revs, time |-> last_time]
          ELSE [ret  |-> IF SpeedPlausible(rev_diff, time_diff)
                         THEN Frac(rev_diff[1] * 969984, 125 * time_diff)
                         ELSE None,
                revs |-> wheel_revs, time |-> wheel_time]

\* a variant under which C32 must fail: the estimate without its upper bound
EstimateCadence_Unclamped(power, speed) ==
    FMax(FAdd(Frac(2 * power, 5), Frac(2 * speed[1], speed[2])), FZero)

\* min(max((power / 2.5) + (speed * 2), 0), 180)
EstimateCadence(power, speed) ==
    FMin(FMax(FAdd(Frac(2 * power, 5), Frac(2 * speed[1], speed[2])), FZero),
         <<180, 1>>)

(***************************************************************************)
(* The state.                                                              *)
(***************************************************************************)
VARIABLES
    current_data,       \* UnityBridge.current_data, a CyclingData
    clients,            \* UnityBridge.clients
    conn,               \* per consumer: the state of its websocket connection
    received,           \* per consumer: the messages it was sent, in order
    ready,              \* broadcast_data tasks created and not yet run, in order
    running,            \* WahooDeviceHandler.running, per handler
    zero_check_task,    \* per handler: "None", "sleeping" or "done"
    sleep_left,         \* per handler: ticks left of the loop's asyncio.sleep(0.5)
    time_since_update,  \* per handler: time.time() - last_update_time, capped
    last_crank_revs, last_crank_time, last_wheel_revs, last_wheel_time,
    stream,             \* per handler: where its connect_and_stream is:
                        \* "none", "connecting", "connected", "waiting"
                        \* (in an asyncio.sleep(5)) or "done"
    device,             \* the logger's WahooDevice: self.running, and where
                        \* its run() is, as for stream
    latest,             \* history: the values last supplied by the owner of
                        \* each field; src and by tell which update supplied
                        \* power, cadence and speed
    decoded             \* the last call of a decoder or of the frame
                        \* packing on its own: the function, its input
                        \* and what came of it

trackers == <<last_crank_revs, last_crank_time, last_wheel_revs, last_wheel_time>>

handler_vars == <<running, zero_check_task, sleep_left, time_since_update>>

fanout == <<clients, conn, received>>

links == <<stream, device>>

vars ==
    <<current_data, fanout, ready, handler_vars, trackers, latest, links,
      decoded>>

\* the websocket connections Unity clients may open
Consumers == {1, 2, 3}

\* main(): one handler for the KICKR (is_hr=False), one for the TICKR (is_hr=True)
Handlers == {"kickr", "tickr"}

is_hr(h) == h = "tickr"

\* CyclingData(timestamp=..., power=..., cadence=..., speed=..., heart_rate=...)
CyclingData(timestamp, power, cadence, speed, heart_rate) ==
    [timestamp |-> timestamp, power |-> power, cadence |-> cadence,
     speed |-> speed, heart_rate |-> heart_rate]

\* time.time(), as the age of the instant it returns
Now == 0

\* ticks > tenths of a second
Longer(ticks, tenths) == ticks * PollInterval > tenths * TicksPerPoll

\* asyncio.sleep(tenths of a second) in ticks, rounded up
Sleep(tenths) == (tenths * TicksPerPoll + PollInterval - 1) \div PollInterval

\* the least number of ticks longer than the timeout: beyond it
\* time_since_update > self.zero_timeout stays true
SinceCap == (ZeroTimeout * TicksPerPoll) \div PollInterval + 1

(***************************************************************************)
(* The notification payloads the model feeds in.                           *)
(***************************************************************************)
\* flags 0x0030: wheel and crank data present; power 0
SampleA == <<48, 0, 0, 0,  0, 0, 0, 0, 0, 0,  0, 0, 0, 0>>

\* one revolution of each, 1024/1024 s later
SampleB == <<48, 0, 0, 0,  1, 0, 0, 0, 0, 4,  1, 0, 0, 4>>

\* what the concurrent specification feeds the power callback
PowerPayloads ==
    { <<0, 0>>,               \* too short to decode
      <<0, 0, 1, 0>>,         \* power 1, no optional field
      <<0, 0, 255, 255>> }    \* power -1

\* what the one-at-a-time specification feeds it: power 0 throughout, so
\* that only cadence and speed make its snapshots nonzero
RatePayloads == { SampleA, SampleB }

\* a 16-bit value as the sensor sends it, low byte first
Bytes16(n) == <<n % 256, n \div 256>>

\* a notification with power 0 and crank data only (flags 0x0020)
CrankSample(revs, time) == <<32, 0, 0, 0>> \o Bytes16(revs) \o Bytes16(time)

\* a notification with power 0 and wheel data only (flags 0x0010); the
\* 32-bit count is given as its <<low, high>> words
WheelSample(revs, time) ==
    <<16, 0, 0, 0>> \o Bytes16(revs[1]) \o Bytes16(revs[2]) \o Bytes16(time)

\* what the rate specification feeds the power callback: crank counts
\* around the 16-bit wrap, wheel counts around the 32-bit wrap, repeated
\* counts and repeated event times, and one notification without either
RateSamples ==
    { CrankSample(65534, 1000), CrankSample(2, 1100), CrankSample(3, 2124),
      CrankSample(3, 1100), CrankSample(2, 5096),
      WheelSample(<<65535, 65535>>, 64512), WheelSample(<<0, 0>>, 0),
      WheelSample(<<7, 0>>, 7168), WheelSample(<<7, 0>>, 0),
      <<0, 0, 1, 0>>,         \* power 1 alone: the cadence is estimated
      <<0, 0, 232, 3>>,       \* power 1000 alone: the estimate is clamped
      <<32, 0, 200, 0>> \o Bytes16(3) \o Bytes16(2124),
                              \* power 200 with crank data
      <<0, 0>> }              \* too short: no field is recognized

HeartRatePayloads ==
    { <<0>>,                  \* too short to decode
      <<0, 1>>,               \* 8-bit value 1
      <<1, 1, 0>> }           \* 16-bit value 1

(***************************************************************************)
(* Construction: UnityBridge.__init__ and WahooDeviceHandler.__init__.     *)
(* The devices are scanned for between the two, so the first snapshot is   *)
(* older than the handlers.                                                *)
(***************************************************************************)
Init ==
    /\ current_data = CyclingData(MaxStampAge, 0, FZero, FZero, 0)
    /\ clients = {}
    /\ conn = [c \in Consumers |-> "none"]
    /\ received = [c \in Consumers |-> <<>>]
    /\ ready = <<>>
    /\ running = [h \in Handlers |-> FALSE]
    /\ zero_check_task = [h \in Handlers |-> "None"]
    /\ sleep_left = [h \in Handlers |-> 0]
    /\ time_since_update = [h \in Handlers |-> Now]
    /\ last_crank_revs = [h \in Handlers |-> Unset]
    /\ last_crank_time = [h \in Handlers |-> Unset]
    /\ last_wheel_revs = [h \in Handlers |-> UnsetWords]
    /\ last_wheel_time = [h \in Handlers |-> Unset]
    /\ latest = [power |-> 0, cadence |-> FZero, speed |-> FZero,
                 heart_rate |-> 0, src |-> "init", by |-> "init"]
    /\ stream = [h \in Handlers |-> "none"]
    /\ device = [running |-> FALSE, at |-> "none"]
    /\ decoded = [parser |-> "none"]

(***************************************************************************)
(* UnityBridge.broadcast_data: commit the snapshot, then fan it out.       *)
(***************************************************************************)
\* data.to_binary(): the frame, told apart here from the handshake and the
\* pong only
ToBinary(data) == "frame"

\* the consumer's connection takes the message
Sent(c, message) == Append(received[c], message)

\* websockets.broadcast(self.clients, message): writes the message to every
\* connection that is open, skips the others, raises nothing and leaves the
\* set as it is
Broadcast(message) ==
    /\ received' = [c \in Consumers |->
                       IF c \in clients /\ conn[c] = "open"
                       THEN Sent(c, message) ELSE received[c]]
    /\ UNCHANGED <<clients, conn>>

\* a variant under which C9 must fail: the fields written one by one, the
\* heart rate first
BroadcastData_InPlace(data) ==
    /\ current_data' = [current_data EXCEPT !.heart_rate = data.heart_rate]
    /\ IF clients # {} THEN Broadcast(ToBinary(data)) ELSE UNCHANGED fanout

BroadcastData(data) ==
    /\ current_data' = data
    /\ IF clients # {} THEN Broadcast(ToBinary(data)) ELSE UNCHANGED fanout

\* a variant under which C27 must fail: the newest task runs first
CreateTask_Front(updated, h) == <<[data |-> updated, by |-> h]>> \o ready

\* asyncio.create_task(self.bridge.broadcast_data(updated))
CreateTask(updated, h) == Append(ready, [data |-> updated, by |-> h])

(***************************************************************************)
(* connect_and_stream up to start_notify: the handler runs, the device is  *)
(* connected, the zero detection task is created and starts its first      *)
(* sleep, notifications are subscribed.                                    *)
(***************************************************************************)
ConnectAndStream(h) ==
    /\ ~running[h]
    /\ running' = [running EXCEPT ![h] = TRUE]
    /\ zero_check_task' = [zero_check_task EXCEPT ![h] = "sleeping"]
    /\ sleep_left' = [sleep_left EXCEPT ![h] = Sleep(PollInterval)]
    /\ stream' = [stream EXCEPT ![h] = "connected"]
    /\ UNCHANGED <<device, decoded, current_data, fanout, ready,
                   time_since_update, trackers, latest>>

(***************************************************************************)
(* The heart-rate callback.                                                *)
(***************************************************************************)
\* a variant under which C8 must fail: the heart-rate callback counts as
\* activity
HeartRateActivity_Resets(h) == [time_since_update EXCEPT ![h] = Now]

\* self.last_update_time after the heart-rate callback: it is not touched
HeartRateActivity(h) == time_since_update

HeartRateCallback(data) ==
    LET h      == "tickr"
        parsed == HeartRateParse(data)
    IN  /\ running[h]
        /\ Len(ready) < MaxPending
        /\ IF "bpm" \in DOMAIN parsed
           THEN LET current == current_data
                    updated == CyclingData(Now, current.power, current.cadence,
                                           current.speed, parsed["bpm"])
                IN  /\ ready' = CreateTask(updated, h)
                    /\ latest' = [latest EXCEPT !.heart_rate = parsed["bpm"]]
           ELSE UNCHANGED <<ready, latest>>
        /\ time_since_update' = HeartRateActivity(h)
        /\ UNCHANGED <<links, decoded, current_data, fanout, running, zero_check_task,
                       sleep_left, trackers>>

(***************************************************************************)
(* The power callback.                                                     *)
(***************************************************************************)
\* parsed.get("power", current.power)
GetPower(parsed, current) ==
    IF "power" \in DOMAIN parsed THEN parsed["power"] ELSE current.power

\* self.last_update_time = time.time(), whatever was parsed
PowerActivity(h, parsed) == [time_since_update EXCEPT ![h] = Now]

PowerCallback(data) ==
    LET h       == "kickr"
        parsed  == CyclingPowerParse(data)
        current == current_data
        power   == GetPower(parsed, current)
        hasCrank == {"crank_revs", "crank_time"} \subseteq DOMAIN parsed
        hasWheel == {"wheel_revs", "wheel_time"} \subseteq DOMAIN parsed
        calcC   == CalculateCadence(last_crank_revs[h], last_crank_time[h],
                                    parsed["crank_revs"], parsed["crank_time"])
        calcS   == CalculateSpeed(last_wheel_revs[h], last_wheel_time[h],
                                  parsed["wheel_revs"], parsed["wheel_time"])
        cadence == IF hasCrank
                   THEN IF calcC.ret # None THEN calcC.ret ELSE current.cadence
                   ELSE IF power > 0 /\ FPos(current.speed)
                        THEN EstimateCadence(power, current.speed)
                        ELSE current.cadence
        speed   == IF hasWheel /\ calcS.ret # None THEN calcS.ret
                   ELSE current.speed
        updated == CyclingData(Now, power, cadence, speed, current.heart_rate)
    IN  /\ running[h]
        /\ Len(ready) < MaxPending
        /\ IF hasCrank
           THEN /\ last_crank_revs' = [last_crank_revs EXCEPT ![h] = calcC.revs]
                /\ last_crank_time' = [last_crank_time EXCEPT ![h] = calcC.time]
           ELSE UNCHANGED <<last_crank_revs, last_crank_time>>
        /\ IF hasWheel
           THEN /\ last_wheel_revs' = [last_wheel_revs EXCEPT ![h] = calcS.revs]
                /\ last_wheel_time' = [last_wheel_time EXCEPT ![h] = calcS.time]
           ELSE UNCHANGED <<last_wheel_revs, last_wheel_time>>
        /\ time_since_update' = PowerActivity(h, parsed)
        /\ ready' = CreateTask(updated, h)
        /\ latest' = [latest EXCEPT !.power = power, !.cadence = cadence,
                                    !.speed = speed,
                                    !.src = IF latest.src \in {"zero", "resumed"}
                                            THEN "resumed" ELSE "power",
                                    !.by = h]
        /\ UNCHANGED <<links, decoded, current_data, fanout, running, zero_check_task,
                       sleep_left>>

(***************************************************************************)
(* The event loop runs the oldest broadcast_data task.                     *)
(***************************************************************************)
RunTask ==
    /\ ready # <<>>
    /\ BroadcastData(Head(ready).data)
    /\ ready' = Tail(ready)
    /\ UNCHANGED <<links, decoded, handler_vars, trackers, latest>>

(***************************************************************************)
(* zero_detection_loop: one pass of the loop body after the sleep.         *)
(***************************************************************************)
\* current.power > 0 or current.cadence > 0 or current.speed > 0
NotAtZero(current) ==
    current.power > 0 \/ FPos(current.cadence) \/ FPos(current.speed)

\* time_since_update > self.zero_timeout
TimedOut(h) == Longer(time_since_update[h], ZeroTimeout)

\* a variant under which C5 must fail: the zero-update forgets the heart rate
ZeroData_DropsHeartRate(current) == CyclingData(Now, 0, FZero, FZero, 0)

ZeroData(current) == CyclingData(Now, 0, FZero, FZero, current.heart_rate)

PollDue(h) == zero_check_task[h] = "sleeping" /\ sleep_left[h] = 0

\* back at `while self.running:` after a pass: the next sleep starts, or the
\* task is done
LoopTop(h) ==
    IF running[h]
    THEN /\ sleep_left' = [sleep_left EXCEPT ![h] = Sleep(PollInterval)]
         /\ UNCHANGED zero_check_task
    ELSE /\ zero_check_task' = [zero_check_task EXCEPT ![h] = "done"]
         /\ UNCHANGED sleep_left

\* the pass that sends zeros
ZeroUpdate(h) ==
    /\ PollDue(h)
    /\ TimedOut(h) /\ NotAtZero(current_data)
    /\ BroadcastData(ZeroData(current_data))
    /\ latest' = [latest EXCEPT !.power = 0, !.cadence = FZero,
                                !.speed = FZero, !.src = "zero", !.by = h]
    /\ LoopTop(h)
    /\ UNCHANGED <<links, decoded, ready, running, time_since_update, trackers>>

\* the pass that finds nothing to do
ZeroIdle(h) ==
    /\ PollDue(h)
    /\ ~(TimedOut(h) /\ NotAtZero(current_data))
    /\ LoopTop(h)
    /\ UNCHANGED <<links, decoded, current_data, fanout, ready, running,
                   time_since_update, trackers, latest>>

(***************************************************************************)
(* 0.1 s passes.  Ready tasks and a loop whose sleep is over run first.    *)
(***************************************************************************)
Older(age, cap) == IF age < cap THEN age + 1 ELSE cap

Tick ==
    /\ ready = <<>>
    /\ \A h \in Handlers : ~PollDue(h)
    /\ time_since_update' =
          [h \in Handlers |-> Older(time_since_update[h], SinceCap)]
    /\ sleep_left' =
          [h \in Handlers |-> IF sleep_left[h] > 0 THEN sleep_left[h] - 1 ELSE 0]
    /\ current_data' =
          [current_data EXCEPT !.timestamp = Older(@, MaxStampAge)]
    /\ UNCHANGED <<links, decoded, fanout, ready, running, zero_check_task, trackers, latest>>

Next ==
    \/ \E h \in Handlers : ConnectAndStream(h)
    \/ \E data \in PowerPayloads : PowerCallback(data)
    \/ \E data \in HeartRatePayloads : HeartRateCallback(data)
    \/ RunTask
    \/ \E h \in Handlers : ZeroUpdate(h)
    \/ \E h \in Handlers : ZeroIdle(h)
    \/ Tick

Spec == Init /\ [][Next]_vars

(***************************************************************************)
(* The same program fed one notification per pass of the event loop (a     *)
(* callback runs when no broadcast task waits), with payloads that carry   *)
(* wheel and crank data.                                                   *)
(***************************************************************************)
NextSerial ==
    \/ \E h \in Handlers : ConnectAndStream(h)
    \/ \E data \in RatePayloads : ready = <<>> /\ PowerCallback(data)
    \/ \E data \in HeartRatePayloads : ready = <<>> /\ HeartRateCallback(data)
    \/ RunTask
    \/ \E h \in Handlers : ZeroUpdate(h)
    \/ \E h \in Handlers : ZeroIdle(h)
    \/ Tick

SpecSerial == Init /\ [][NextSerial]_vars

(***************************************************************************)
(* The same program with stop(): a handler is started once and may be      *)
(* stopped at any moment after that.  stop() clears self.running and       *)
(* disconnects the client, which ends the notifications; it does not       *)
(* cancel the zero detection task.                                         *)
(***************************************************************************)
Stop(h) ==
    /\ running[h]
    /\ running' = [running EXCEPT ![h] = FALSE]
    /\ UNCHANGED <<links, decoded, current_data, fanout, ready, zero_check_task,
                   sleep_left, time_since_update, trackers, latest>>

NextStop ==
    \/ \E h \in Handlers : zero_check_task[h] = "None" /\ ConnectAndStream(h)
    \/ \E data \in RatePayloads : ready = <<>> /\ PowerCallback(data)
    \/ \E data \in HeartRatePayloads : ready = <<>> /\ HeartRateCallback(data)
    \/ RunTask
    \/ \E h \in Handlers : ZeroUpdate(h)
    \/ \E h \in Handlers : ZeroIdle(h)
    \/ Tick
    \/ \E h \in Handlers : Stop(h)

SpecStop == Init /\ [][NextStop]_vars


(***************************************************************************)
(* The rate calculators at work: the power handler alone, one notification *)
(* per pass of the event loop, fed crank-only and wheel-only samples.      *)
(***************************************************************************)
NextRate ==
    \/ ConnectAndStream("kickr")
    \/ \E data \in RateSamples : ready = <<>> /\ PowerCallback(data)
    \/ RunTask

SpecRate == Init /\ [][NextRate]_vars

(***************************************************************************)
(* The decoders on their own: each call takes a payload cut short after    *)
(* any number of its bytes.  The payloads carry their flags and, from the  *)
(* third byte on, a value that tells where the byte stood.                 *)
(***************************************************************************)
\* RR values in 1/1024 s: the ends of the range, whole and half
\* milliseconds, and values on either side of them
RRValues == {0, 1, 64, 511, 512, 513, 1000, 1023, 1024, 65535}

\* Heart-Rate payloads: 8-bit and 16-bit value, without and with RR
\* intervals, one with a byte left over, and one for each RR value
HeartRateFull ==
    { <<0, 60>>, <<1, 44, 1>>, <<16, 60, 0, 4, 0, 2>>,
      <<17, 44, 1, 0, 4, 1, 2, 9>> }
      \cup {<<16, 60>> \o Bytes16(v) : v \in RRValues}

\* flag combinations of the balance (1), torque (4), wheel (16) and crank
\* (32) fields of a Cycling-Power payload
PowerFlags == {0, 1, 4, 5, 16, 17, 20, 21, 32, 33, 36, 37, 48, 49, 52, 53}

\* 1 if the flag is set, else 0
BitOf(flags, mask) == IF HasBit(flags, mask) THEN 1 ELSE 0

\* the length of the complete Cycling-Power payload these flags announce
PowerWidth(flags) ==
    4 + BitOf(flags, 1) + 2 * BitOf(flags, 4) + 6 * BitOf(flags, 16)
      + 4 * BitOf(flags, 32)

\* flags, then byte i holds 10 + i
Filled(flags, width) ==
    [i \in 1 .. width |->
        IF i = 1 THEN flags % 256 ELSE IF i = 2 THEN flags \div 256 ELSE 10 + i]

PowerFull(flags) == Filled(flags, PowerWidth(flags))

\* the payload with wheel and crank data and a power of -200 (0xff38)
NegativePower == [PowerFull(48) EXCEPT ![3] = 56, ![4] = 255]

\* the complete Cycling-Power payloads decoded
PowerFulls == {PowerFull(flags) : flags \in PowerFlags} \cup {NegativePower}

\* every combination of the average speed (2), cadence (4), average cadence
\* (8), distance (16), resistance (32) and power (64) flags of an
\* Indoor-Bike payload
IndoorBikeFlags == {2 * k : k \in 0 .. 63}

\* the length of the complete Indoor-Bike payload these flags announce
IndoorBikeWidth(flags) ==
    4 + 2 * BitOf(flags, 2) + 2 * BitOf(flags, 4) + 2 * BitOf(flags, 8)
      + 3 * BitOf(flags, 16) + 2 * BitOf(flags, 32) + 2 * BitOf(flags, 64)

IndoorBikeFull(flags) == Filled(flags, IndoorBikeWidth(flags))

\* the payload with speed and a power of -200 (0xff38)
NegativeBikePower == [IndoorBikeFull(64) EXCEPT ![5] = 56, ![6] = 255]

\* the complete Indoor-Bike payloads decoded
IndoorBikeFulls ==
    {IndoorBikeFull(flags) : flags \in IndoorBikeFlags}
        \cup {NegativeBikePower}

\* the payload cut short after its first n bytes
Truncated(full, n) == SubSeq(full, 1, n)

\* what a decode call leaves alone
bridge_vars ==
    <<current_data, fanout, ready, handler_vars, trackers, latest, links>>

\* HeartRateParser.parse of the bridge
DecodeHeartRate(full, n) ==
    /\ decoded' = [parser |-> "HeartRateParser", full |-> full, length |-> n,
                   out |-> Returned(HeartRateParse(Truncated(full, n)))]
    /\ UNCHANGED bridge_vars

\* CyclingPowerParser.parse of the bridge
DecodePower(full, n) ==
    /\ decoded' = [parser |-> "CyclingPowerParser", full |-> full,
                   length |-> n,
                   out |-> Returned(CyclingPowerParse(Truncated(full, n))),
                   reads |-> Indexes(CyclingPowerSlices(Truncated(full, n)))]
    /\ UNCHANGED bridge_vars

\* HeartRateParser.parse of the logger
LoggerDecodeHeartRate(full, n) ==
    /\ decoded' = [parser |-> "logger.HeartRateParser", full |-> full,
                   length |-> n,
                   out |-> LoggerHeartRateParse(Truncated(full, n))]
    /\ UNCHANGED bridge_vars

\* CyclingPowerParser.parse of the logger
LoggerDecodePower(full, n) ==
    /\ decoded' = [parser |-> "logger.CyclingPowerParser", full |-> full,
                   length |-> n,
                   out |-> LoggerCyclingPowerParse(Truncated(full, n)),
                   reads |-> IF n < 4 THEN {}
                             ELSE Indexes(LoggerCyclingPowerScan(
                                             Truncated(full, n)).unpacks)]
    /\ UNCHANGED bridge_vars

\* FTMSIndoorBikeParser.parse
DecodeIndoorBike(full, n) ==
    /\ decoded' = [parser |-> "logger.FTMSIndoorBikeParser", full |-> full,
                   length |-> n,
                   out |-> IndoorBikeParse(Truncated(full, n))]
    /\ UNCHANGED bridge_vars

NextDecode ==
    \/ \E full \in HeartRateFull : \E n \in 0 .. Len(full) :
          DecodeHeartRate(full, n)
    \/ \E full \in PowerFulls : \E n \in 0 .. Len(full) :
          DecodePower(full, n)
    \/ \E full \in HeartRateFull : \E n \in 0 .. Len(full) :
          LoggerDecodeHeartRate(full, n)
    \/ \E full \in PowerFulls : \E n \in 0 .. Len(full) :
          LoggerDecodePower(full, n)
    \/ \E full \in IndoorBikeFulls : \E n \in 0 .. Len(full) :
          DecodeIndoorBike(full, n)

SpecDecode == Init /\ [][NextDecode]_vars

(***************************************************************************)
(* The consumers.  register_client adds the connection to the registry and *)
(* writes the handshake; it leaves the registry again when the connection  *)
(* has closed and its receive loop ends.                                   *)
(***************************************************************************)
\* a variant under which C11 must fail: the consumer is registered and the
\* handshake is written only after a suspension
RegisterClient_AddOnly(c) ==
    /\ conn[c] = "none"
    /\ conn' = [conn EXCEPT ![c] = "open"]
    /\ clients' = clients \cup {c}
    /\ UNCHANGED <<links, decoded, current_data, received, ready, handler_vars, trackers,
                   latest>>

\* self.clients.add(websocket); await websocket.send(handshake)
RegisterClient(c) ==
    /\ conn[c] = "none"
    /\ conn' = [conn EXCEPT ![c] = "open"]
    /\ clients' = clients \cup {c}
    /\ received' = [received EXCEPT ![c] = Sent(c, "handshake")]
    /\ UNCHANGED <<links, decoded, current_data, ready, handler_vars, trackers, latest>>

\* self.clients.add(websocket); await websocket.send(handshake) raises
\* ConnectionClosed, the connection having ended before the handler ran: the
\* exception leaves register_client ahead of its try, the finally never runs
HandshakeFails(c) ==
    /\ conn[c] = "none"
    /\ clients' = clients \cup {c}
    /\ conn' = [conn EXCEPT ![c] = "gone"]
    /\ UNCHANGED <<links, decoded, current_data, received, ready, handler_vars, trackers,
                   latest>>

\* async for message in websocket: await websocket.send({"pong": message})
Echo(c) ==
    /\ conn[c] = "open"
    /\ Len(received[c]) < MaxReceived
    /\ received' = [received EXCEPT ![c] = Sent(c, "pong")]
    /\ UNCHANGED <<links, decoded, current_data, clients, conn, ready, handler_vars, trackers,
                   latest>>

\* async for message in websocket, the message a binary frame (bytes):
\* json.dumps({"pong": message}) raises TypeError, finally removes the
\* consumer, the handler ends and the connection with it
EchoBinary(c) ==
    /\ conn[c] = "open"
    /\ c \in clients
    /\ clients' = clients \ {c}
    /\ conn' = [conn EXCEPT ![c] = "gone"]
    /\ UNCHANGED <<links, decoded, current_data, received, ready, handler_vars, trackers,
                   latest>>

\* the peer or the network closes the connection: a send to it now fails
ConnectionLost(c) ==
    /\ conn[c] = "open"
    /\ conn' = [conn EXCEPT ![c] = "closed"]
    /\ UNCHANGED <<links, decoded, current_data, clients, received, ready, handler_vars,
                   trackers, latest>>

\* async for message in websocket ends; finally: self.clients.remove(websocket)
UnregisterClient(c) ==
    /\ conn[c] = "closed"
    /\ c \in clients
    /\ clients' = clients \ {c}
    /\ conn' = [conn EXCEPT ![c] = "gone"]
    /\ UNCHANGED <<links, decoded, current_data, received, ready, handler_vars, trackers,
                   latest>>

\* every consumer can still be sent a message
Room == \A c \in Consumers : Len(received[c]) < MaxReceived

NextFan ==
    \/ \E c \in Consumers : RegisterClient(c)
    \/ \E c \in Consumers : ConnectionLost(c)
    \/ \E c \in Consumers : UnregisterClient(c)
    \/ \E c \in Consumers : HandshakeFails(c)
    \/ \E c \in Consumers : Echo(c)
    \/ \E c \in Consumers : EchoBinary(c)
    \/ ConnectAndStream("tickr")
    \/ \E data \in HeartRatePayloads :
          ready = <<>> /\ Room /\ HeartRateCallback(data)
    \/ RunTask

SpecFan == Init /\ [][NextFan]_vars

(***************************************************************************)
(* Properties.                                                             *)
(***************************************************************************)
SnapshotFields == {"timestamp", "power", "cadence", "speed", "heart_rate"}

\* the snapshot holds the values last supplied by the owner of each field
HoldsLatest ==
    /\ current_data.power = latest.power
    /\ current_data.cadence = latest.cadence
    /\ current_data.speed = latest.speed
    /\ current_data.heart_rate = latest.heart_rate

\* C1: no update is lost when the power and the heart-rate callbacks
\* interleave.  In a run of notifications only (no zero-update was issued),
\* once every scheduled broadcast has committed, the snapshot holds the
\* power, cadence and speed of the latest power update and the heart rate of
\* the latest heart-rate update.
C1_NoLostUpdate ==
    (ready = <<>> /\ latest.src = "power") => HoldsLatest

\* C2: with both handlers connected, a zero-update is issued only when no
\* power-stream update was received for longer than the timeout.
C2_ZeroOnlyAfterPowerSilence ==
    [][ \A h \in Handlers :
          (ZeroUpdate(h) /\ running["kickr"] /\ running["tickr"])
             => TimedOut("kickr") ]_vars

\* C3: one zero-update per period of silence: once the power handler's
\* detector has issued a zero-update, it issues no second one while that
\* zero-update is still the last update of power, cadence and speed, that
\* is, before a fresh power-stream update has arrived.
C3_OneZeroPerSilence ==
    [][ ZeroUpdate("kickr") =>
           ~(latest.src = "zero" /\ latest.by = "kickr") ]_vars

\* power, cadence or speed is nonzero
AnyNonzero(current) ==
    current.power # 0 \/ current.cadence # FZero \/ current.speed # FZero

\* C4: a poll of the power handler's detector that finds the timeout
\* exceeded and any of power, cadence or speed nonzero issues a zero-update:
\* it never is the pass that does nothing.
C4_PollZeroesAnyNonzero ==
    [][ ZeroIdle("kickr") =>
          ~(TimedOut("kickr") /\ AnyNonzero(current_data)) ]_vars

\* C5: every zero-update sets power, cadence and speed to 0 and leaves
\* heart_rate as it was in the snapshot current when it was issued.
C5_ZeroKeepsHeartRate ==
    [][ \A h \in Handlers :
          ZeroUpdate(h) =>
             /\ current_data'.power = 0
             /\ current_data'.cadence = FZero
             /\ current_data'.speed = FZero
             /\ current_data'.heart_rate = current_data.heart_rate ]_vars

\* C5 witness: a zero-update was the last word on power, cadence and speed,
\* the crank tracker had been fed, and a heart rate is still there.
C5_Witness ==
    /\ latest.src = "zero"
    /\ ready = <<>>
    /\ last_crank_revs["kickr"] # Unset
    /\ current_data.heart_rate # 0
    /\ current_data.power = 0

\* C6: after a zero-update, the next power-stream update with nonzero power
\* is carried by the snapshot once its broadcast has run, and re-arms the
\* detector: a later poll that finds the timeout exceeded issues a
\* zero-update.
C6_ResumeRearms ==
    /\ [](( latest.src = "resumed" /\ latest.power # 0 /\ ready = <<>>)
             => current_data.power = latest.power)
    /\ [][ (ZeroIdle("kickr") /\ latest.src = "resumed" /\ latest.power # 0)
             => ~TimedOut("kickr") ]_vars

\* C7: a power-stream notification whose payload does not decode leaves the
\* activity clock alone.
C7_UndecodableKeepsClock ==
    [][ \A data \in PowerPayloads :
          (CyclingPowerParse(data) = EmptyDict /\ PowerCallback(data))
             => UNCHANGED time_since_update ]_vars

\* a broadcast task created by the heart-rate callback commits
HeartRateCommit == RunTask /\ Head(ready).by = "tickr"

\* C8: handling a heart-rate notification, callback and broadcast, never
\* changes any handler's activity clock.
C8_HeartRateKeepsClock ==
    [][ ((\E data \in HeartRatePayloads : HeartRateCallback(data))
           \/ HeartRateCommit)
          => UNCHANGED time_since_update ]_vars

\* C8 witness: a heart-rate update waits to be broadcast while the power
\* handler's clock has run past the timeout.
C8_Witness ==
    /\ ready # <<>>
    /\ Head(ready).by = "tickr"
    /\ Head(ready).data.heart_rate # 0
    /\ TimedOut("kickr")

\* C9: the snapshot always has its five fields, and it changes only by
\* being replaced whole with the snapshot one update built (a broadcast
\* task's, or the zero-update's); the passing of time only ages it.
C9_ReplacedWholesale ==
    [][ /\ DOMAIN current_data' = SnapshotFields
        /\ current_data' # current_data =>
             \/ /\ ready # <<>>
                /\ current_data' = Head(ready).data
                /\ ready' = Tail(ready)
             \/ \E h \in Handlers :
                   PollDue(h) /\ current_data' = ZeroData(current_data)
             \/ /\ ready' = ready
                /\ current_data' =
                     [current_data EXCEPT !.timestamp = Older(@, MaxStampAge)]
      ]_vars

\* C9 witness: a committed heart-rate update is current while the next
\* update, built from it, waits with different values.
C9_Witness ==
    /\ current_data.heart_rate # 0
    /\ ready # <<>>
    /\ Head(ready).data.power # current_data.power


\* the registered consumers the send to which fails
Failing == {c \in clients : conn[c] # "open"}

\* C10: a push delivers the frame to every registered consumer the send to
\* which succeeds, and removes exactly the failing consumers from the
\* registry.
C10_PushDropsFailing ==
    [][ (RunTask /\ clients # {}) =>
           /\ \A c \in clients \ Failing :
                 received'[c] = Append(received[c], "frame")
           /\ clients' = clients \ Failing ]_vars

\* C11: the first message a consumer receives is the handshake: no frame
\* and no pong comes before it, however registrations and broadcasts
\* interleave.
C11_HandshakeFirst ==
    \A c \in Consumers :
        received[c] # <<>> => Head(received[c]) = "handshake"

\* C11 witness: one consumer has received a frame after its handshake, and
\* another, registered and open, has its handshake only: it registered
\* after that frame was broadcast.
C11_Witness ==
    \E c, d \in Consumers :
        /\ received[c] = <<"handshake", "frame">>
        /\ received[d] = <<"handshake">>
        /\ d \in clients
        /\ conn[d] = "open"

\* C12: a consumer is in the registry exactly while its connection lives: it
\* is there while the connection is open, and it is there no more once its
\* handler has ended, whatever ended the connection.
C12_RegistryWhileAlive ==
    \A c \in Consumers :
        /\ conn[c] = "open" => c \in clients
        /\ conn[c] \in {"none", "gone"} => c \notin clients

\* the crank fields of a decoded notification, or Unset
CrankOf(data) ==
    LET parsed == CyclingPowerParse(data)
    IN  IF "crank_revs" \in DOMAIN parsed
        THEN <<parsed["crank_revs"], parsed["crank_time"]>>
        ELSE <<Unset, Unset>>

\* the wheel fields of a decoded notification, or Unset
WheelOf(data) ==
    LET parsed == CyclingPowerParse(data)
    IN  IF "wheel_revs" \in DOMAIN parsed
        THEN <<parsed["wheel_revs"], parsed["wheel_time"]>>
        ELSE <<UnsetWords, Unset>>

\* a crank sample meets a seeded crank tracker
CrankSeeded(data) ==
    CrankOf(data)[1] # Unset /\ last_crank_revs["kickr"] # Unset

\* a wheel sample meets a seeded wheel tracker
WheelSeeded(data) ==
    WheelOf(data)[1] # UnsetWords /\ last_wheel_revs["kickr"] # UnsetWords

\* the count and the time delta of a crank sample, modulo 2^16
CrankCount(data) == (CrankOf(data)[1] - last_crank_revs["kickr"]) % 65536
CrankTime(data) == (CrankOf(data)[2] - last_crank_time["kickr"]) % 65536

\* the count delta of a wheel sample, modulo 2^32, as <<low, high>> words,
\* and its time delta, modulo 2^16
WheelCount(data) ==
    LET a == WheelOf(data)[1]
        b == last_wheel_revs["kickr"]
        low == a[1] - b[1]
    IN  << low % 65536, (a[2] - b[2] + (low \div 65536)) % 65536 >>
WheelTime(data) == (WheelOf(data)[2] - last_wheel_time["kickr"]) % 65536

\* the snapshot the callback has just scheduled
Scheduled == ready'[Len(ready')].data

\* C13: a rate call whose result is implausible (cadence not below 255,
\* speed not below 100) returns no rate and does not advance the tracker.
C13_ImplausibleKeepsTracker ==
    [][ \A data \in RateSamples :
          PowerCallback(data) =>
            /\ ( /\ CrankSeeded(data)
                 /\ CrankCount(data) > 0 /\ CrankTime(data) > 0
                 /\ \/ CrankCount(data) > 271
                    \/ CrankCount(data) * 61440 >= 255 * CrankTime(data) )
               => /\ Scheduled.cadence = current_data.cadence
                  /\ UNCHANGED <<last_crank_revs, last_crank_time>>
            /\ ( /\ WheelSeeded(data)
                 /\ WheelCount(data) # <<0, 0>> /\ WheelTime(data) > 0
                 /\ \/ WheelCount(data)[2] > 0
                    \/ WheelCount(data)[1] > 844
                    \/ WheelCount(data)[1] * 969984 >= 12500 * WheelTime(data) )
               => /\ Scheduled.speed = current_data.speed
                  /\ UNCHANGED <<last_wheel_revs, last_wheel_time>> ]_vars

\* C14: a rate call whose count delta or time delta is zero returns no rate
\* and leaves the tracker's last count and last event time as they were.
C14_ZeroDeltaKeepsTracker ==
    [][ \A data \in RateSamples :
          PowerCallback(data) =>
            /\ (CrankSeeded(data)
                  /\ (CrankCount(data) = 0 \/ CrankTime(data) = 0))
               => /\ Scheduled.cadence = current_data.cadence
                  /\ UNCHANGED <<last_crank_revs, last_crank_time>>
            /\ (WheelSeeded(data)
                  /\ (WheelCount(data) = <<0, 0>> \/ WheelTime(data) = 0))
               => /\ Scheduled.speed = current_data.speed
                  /\ UNCHANGED <<last_wheel_revs, last_wheel_time>> ]_vars

\* C14 witness: the crank tracker stands at (3, 2124) with the cadence of 60
\* it produced committed, and one more notification has been handled since,
\* as when the sample (3, 1100) or (3, 2124) follows: the tracker and the
\* cadence are as before.
C14_Witness ==
    /\ last_crank_revs["kickr"] = 3
    /\ last_crank_time["kickr"] = 2124
    /\ last_wheel_revs["kickr"] = UnsetWords
    /\ current_data.cadence = <<60, 1>>
    /\ ready # <<>>
    /\ Head(ready).data.cadence = <<60, 1>>

\* C15: the first crank (wheel) sample a tracker sees is stored as its last
\* count and event time and yields no rate: the snapshot built by that
\* notification has the cadence (speed) of the snapshot before it.
C15_FirstSampleSeeds ==
    [][ \A data \in RateSamples :
          PowerCallback(data) =>
            /\ (CrankOf(data)[1] # Unset /\ last_crank_revs["kickr"] = Unset)
               => /\ last_crank_revs'["kickr"] = CrankOf(data)[1]
                  /\ last_crank_time'["kickr"] = CrankOf(data)[2]
                  /\ Scheduled.cadence = current_data.cadence
            /\ (WheelOf(data)[1] # UnsetWords
                  /\ last_wheel_revs["kickr"] = UnsetWords)
               => /\ last_wheel_revs'["kickr"] = WheelOf(data)[1]
                  /\ last_wheel_time'["kickr"] = WheelOf(data)[2]
                  /\ Scheduled.speed = current_data.speed ]_vars

\* C15 witness: the crank tracker holds a sample, and the snapshot just
\* built keeps the cadence that had been estimated from power and speed
\* before any crank sample came.
C15_Witness ==
    /\ last_crank_revs["kickr"] = 2
    /\ last_crank_time["kickr"] = 1100
    /\ ready # <<>>
    /\ current_data.power = 1
    /\ current_data.cadence \notin {FZero, <<60, 1>>}
    /\ Head(ready).data.cadence = current_data.cadence

\* C16: the count delta is taken modulo 2^16 for the crank and modulo 2^32
\* for the wheel, the time delta modulo 2^16, and the rate is computed from
\* these: a call with nonzero deltas yields count * 1024 * 60 / time (resp.
\* count * 2.105 * 1024 / time * 3.6) when that is plausible and no rate
\* otherwise.  Crank (65534, 1000) then (2, 1100): deltas 4 and 100, a
\* cadence of 2457.6, no rate.
C16_ModularDeltas ==
    [][ \A data \in RateSamples :
          PowerCallback(data) =>
            /\ (CrankSeeded(data)
                  /\ CrankCount(data) > 0 /\ CrankTime(data) > 0)
               => Scheduled.cadence =
                    IF /\ CrankCount(data) <= 271
                       /\ CrankCount(data) * 61440 < 255 * CrankTime(data)
                    THEN Frac(CrankCount(data) * 61440, CrankTime(data))
                    ELSE current_data.cadence
            /\ (WheelSeeded(data)
                  /\ WheelCount(data) # <<0, 0>> /\ WheelTime(data) > 0)
               => Scheduled.speed =
                    IF /\ WheelCount(data)[2] = 0
                       /\ WheelCount(data)[1] <= 844
                       /\ WheelCount(data)[1] * 969984 < 12500 * WheelTime(data)
                    THEN Frac(WheelCount(data)[1] * 969984,
                              125 * WheelTime(data))
                    ELSE current_data.speed
            /\ (data = CrankSample(2, 1100)
                  /\ last_crank_revs["kickr"] = 65534
                  /\ last_crank_time["kickr"] = 1000)
               => /\ CrankCount(data) = 4
                  /\ CrankTime(data) = 100
                  /\ Frac(4 * 1024 * 60, 100) = <<12288, 5>>
                  /\ Scheduled.cadence = current_data.cadence ]_vars

\* C16 witness: the crank count wrapped from 65534 to 2 in 4096/1024 s, and
\* the snapshot just built has the cadence of 60 this gives, which the
\* snapshot before it had not.
C16_Witness ==
    /\ last_crank_revs["kickr"] = 2
    /\ last_crank_time["kickr"] = 5096
    /\ ready # <<>>
    /\ Head(ready).data.cadence = <<60, 1>>
    /\ current_data.cadence # <<60, 1>>

\* the wheel tracker stands at (0, 0) and the sample (7, 7168) comes
SevenRevolutions(data) ==
    /\ data = WheelSample(<<7, 0>>, 7168)
    /\ last_wheel_revs["kickr"] = <<0, 0>>
    /\ last_wheel_time["kickr"] = 0

\* C17, as amended: from a wheel tracker at (0, 0), the sample (7, 7168)
\* returns 7 * 2.105 * 1024 / 7168 * 3.6 = 7.578 km/h exactly, and advances
\* the tracker to (7, 7168).
C17_SevenRevolutions ==
    [][ \A data \in RateSamples :
          (PowerCallback(data) /\ SevenRevolutions(data)) =>
            /\ Scheduled.speed = <<3789, 500>>
            /\ last_wheel_revs'["kickr"] = <<7, 0>>
            /\ last_wheel_time'["kickr"] = 7168 ]_vars

\* C17, as stated: the speed returned is 7.67 km/h to two decimals.
C17_AsStated ==
    [][ \A data \in RateSamples :
          (PowerCallback(data) /\ SevenRevolutions(data)) =>
            /\ 7665 * Scheduled.speed[2] <= 1000 * Scheduled.speed[1]
            /\ 1000 * Scheduled.speed[1] < 7675 * Scheduled.speed[2]
            /\ last_wheel_revs'["kickr"] = <<7, 0>>
            /\ last_wheel_time'["kickr"] = 7168 ]_vars

\* C17 witness: the wheel tracker stands at (7, 7168) and the snapshot just
\* built has a speed of 7.578, the one before it none.
C17_Witness ==
    /\ last_wheel_revs["kickr"] = <<7, 0>>
    /\ last_wheel_time["kickr"] = 7168
    /\ ready # <<>>
    /\ Head(ready).data.speed = <<3789, 500>>
    /\ current_data.speed = FZero

\* C18: every decode call returns, with the fields it recognized or with
\* none: no exception leaves a decoder, whatever the payload's length and
\* flags.
C18_DecodeNeverRaises ==
    decoded.parser # "none" => ~decoded.out.raised

\* the flags of a complete Cycling-Power payload
FlagsOf(full) == FromBytesLE(Slice(full, 0, 2))

\* where the wheel data of a complete Cycling-Power payload ends
WheelEnd(full) ==
    4 + BitOf(FlagsOf(full), 1) + 2 * BitOf(FlagsOf(full), 4) + 6

\* the fields of a complete Cycling-Power payload that lie within its first
\* n bytes: the power ends at 4, the crank data where the payload ends
FieldsWithin(full, n) ==
    (IF n >= 4 THEN {"power"} ELSE {})
      \cup (IF HasBit(FlagsOf(full), 16) /\ n >= WheelEnd(full)
            THEN {"wheel_revs", "wheel_time"} ELSE {})
      \cup (IF HasBit(FlagsOf(full), 32) /\ n >= Len(full)
            THEN {"crank_revs", "crank_time"} ELSE {})

\* C19: the Cycling-Power decoder of the bridge, given a payload cut short
\* after any number of bytes, reports exactly the fields that lie wholly
\* within what is left, each with the value it has in the complete payload.
C19_TruncatedPrefixFields ==
    decoded.parser = "CyclingPowerParser" =>
        LET got   == decoded.out.fields
            whole == CyclingPowerParse(decoded.full)
        IN  /\ DOMAIN got = FieldsWithin(decoded.full, decoded.length)
            /\ \A k \in DOMAIN got : got[k] = whole[k]

\* C20: every byte a Cycling-Power decoder reads, the bridge's or the
\* logger's, lies at an index below the length of the payload, whatever the
\* flags.
C20_ReadsWithinPayload ==
    decoded.parser \in {"CyclingPowerParser", "logger.CyclingPowerParser"} =>
        \A i \in decoded.reads : 0 <= i /\ i < decoded.length

\* C20 witness: flags announcing wheel and crank data on a payload that
\* ends inside the wheel data, decoded by the bridge: four bytes are read
\* past the power.
C20_Witness ==
    /\ decoded.parser = "CyclingPowerParser"
    /\ decoded.full = PowerFull(48)
    /\ decoded.length = 9
    /\ decoded.reads = 0 .. 7

\* the least length a decoder accepts
MinimumLength(parser) ==
    IF parser \in {"CyclingPowerParser", "logger.CyclingPowerParser"}
    THEN 4 ELSE 2

\* C21: a payload shorter than the minimum of its format (2 bytes for
\* Heart-Rate and Indoor-Bike, 4 for Cycling-Power) is returned from with no
\* field recognized, by every decoder.
C21_TooShortNoFields ==
    (decoded.parser # "none"
       /\ decoded.length < MinimumLength(decoded.parser))
    => /\ ~decoded.out.raised
       /\ decoded.out.fields = EmptyDict

\* C21 witness: the bridge's Heart-Rate decoder was given the one byte 01,
\* which announces a 16-bit value.
C21_Witness ==
    /\ decoded.parser = "HeartRateParser"
    /\ decoded.full = <<1, 44, 1>>
    /\ decoded.length = 1
    /\ decoded.out.fields = EmptyDict

\* where the RR fields of a Heart-Rate payload begin
RROffset(data) == IF data[1] % 2 = 1 THEN 3 ELSE 2

\* the i-th 16-bit RR field of a Heart-Rate payload
RRField(data, i) ==
    LET o == RROffset(data) + 2 * (i - 1)
    IN  data[o + 1] + 256 * data[o + 2]

\* round(v / 1024 * 1000), a tie going to the even number
RoundedMilliseconds(v) ==
    LET q == (v * 1000) \div 1024
        r == (v * 1000) % 1024
    IN  IF r > 512 \/ (r = 512 /\ q % 2 = 1) THEN q + 1 ELSE q

\* the logger's Heart-Rate decoder has reported RR intervals
ReportsRR ==
    /\ decoded.parser = "logger.HeartRateParser"
    /\ ~decoded.out.raised
    /\ "rr_intervals_ms" \in DOMAIN decoded.out.fields

\* C22: each RR value v is reported as round(v / 1024 * 1000) milliseconds.
C22_RRRounded ==
    ReportsRR =>
        LET data == Truncated(decoded.full, decoded.length)
            rr   == decoded.out.fields["rr_intervals_ms"]
        IN  \A i \in 1 .. Len(rr) :
                rr[i] = RoundedMilliseconds(RRField(data, i))

\* the distance between a and b
Distance(a, b) == IF a < b THEN b - a ELSE a - b

\* the logger's Heart-Rate decoder was given a payload with flags bit 4 set
\* and its heart-rate value complete
GivenRR ==
    /\ decoded.parser = "logger.HeartRateParser"
    /\ decoded.length >= 1
    /\ HasBit(decoded.full[1], 16)
    /\ decoded.length >= RROffset(decoded.full)

\* C23: with flags bit 4 set, the heart rate is the 8-bit or the 16-bit
\* little-endian value flags bit 0 selects, every complete 16-bit RR field
\* after it is decoded, in payload order, floor(remaining bytes / 2) of
\* them, and each reported value is within 1 ms of v * 1000 / 1024.
C23_EveryRRField ==
    GivenRR =>
        LET data   == Truncated(decoded.full, decoded.length)
            fields == decoded.out.fields
            count  == (decoded.length - RROffset(data)) \div 2
            rr     == IF "rr_intervals_ms" \in DOMAIN fields
                      THEN fields["rr_intervals_ms"] ELSE <<>>
        IN  /\ ~decoded.out.raised
            /\ fields["bpm"] = IF data[1] % 2 = 1
                               THEN data[2] + 256 * data[3] ELSE data[2]
            /\ Len(rr) = count
            /\ \A i \in 1 .. count :
                  Distance(rr[i] * 1024, RRField(data, i) * 1000) <= 1024

\* C23 witness: a 16-bit heart rate of 300, two RR fields of 1024 and 513
\* and a byte left over: 1000 ms and 500 ms are reported.
C23_Witness ==
    /\ decoded.parser = "logger.HeartRateParser"
    /\ decoded.full = <<17, 44, 1, 0, 4, 1, 2, 9>>
    /\ decoded.length = 8
    /\ decoded.out.fields["bpm"] = 300
    /\ decoded.out.fields["rr_intervals_ms"] = <<1000, 500>>

(***************************************************************************)
(* CyclingData.to_binary and the frame on the wire.  struct.pack('dfffi')  *)
(* packs in native mode: the byte order is the host's, and the fields are  *)
(* aligned as the host's C compiler aligns them, which for a double at 0,  *)
(* three floats at 8, 12, 16 and an int at 20 leaves no padding.           *)
(* The bytes of one field are computed most significant first and put in   *)
(* the host's order by Native.  Values are fractions <<n, d>>; a packed    *)
(* float is rounded to 24 significant bits, ties to even, as the C         *)
(* conversion from double to float does.  Doubles are taken from those     *)
(* with at most 24 significant bits, whose low 29 fraction bits are zero.  *)
(***************************************************************************)
\* sys.byteorder of the hosts Python runs on
ByteOrders == {"little", "big"}

Reverse(bytes) == [i \in 1 .. Len(bytes) |-> bytes[Len(bytes) + 1 - i]]

\* the bytes of a field, most significant first, in the host's order
Native(byteorder, bytes) ==
    IF byteorder = "big" THEN bytes ELSE Reverse(bytes)

\* the binary exponent e of n/d: 2^e <= n/d < 2^(e+1)
Exponent(n, d) ==
    CHOOSE e \in -6 .. 16 :
        IF e >= 0
        THEN d * 2^e <= n /\ n < d * 2^(e + 1)
        ELSE d <= n * 2^(-e) /\ n * 2^(-e) < 2 * d

\* n/d scaled by 2^-e into [1, 2), as numerator and denominator
Scaled(n, d) ==
    LET e == Exponent(n, d)
    IN  IF e >= 0 THEN <<n, d * 2^e>> ELSE <<n * 2^(-e), d>>

\* the leading bits + 1 bits of n/d in [1, 2) and the remainder left over d
RECURSIVE Significand(_, _, _)
Significand(n, d, bits) ==
    IF bits = 0 THEN <<n \div d, n % d>>
    ELSE LET s == Significand(n, d, bits - 1)
         IN  <<2 * s[1] + (2 * s[2]) \div d, (2 * s[2]) % d>>

\* the significand rounded to nearest, ties to even
Rounded(n, d, bits) ==
    LET s == Significand(n, d, bits)
    IN  IF 2 * s[2] > d \/ (2 * s[2] = d /\ s[1] % 2 = 1)
        THEN s[1] + 1 ELSE s[1]

\* format 'f': an IEEE-754 single of sign, 8 exponent and 23 fraction bits
PackFloat(negative, x) ==
    LET sign == IF negative THEN 128 ELSE 0
    IN  IF x[1] = 0 THEN <<sign, 0, 0, 0>>
        ELSE LET sc    == Scaled(x[1], x[2])
                 r     == Rounded(sc[1], sc[2], 23)
                 carry == r = 2^24
                 exp   == Exponent(x[1], x[2]) + 127 + (IF carry THEN 1 ELSE 0)
                 frac  == IF carry THEN 0 ELSE r - 2^23
             IN  <<sign + exp \div 2, (exp % 2) * 128 + frac \div 65536,
                   (frac \div 256) % 256, frac % 256>>

\* format 'd': an IEEE-754 double of sign, 11 exponent and 52 fraction bits
PackDouble(x) ==
    IF x[1] = 0 THEN <<0, 0, 0, 0, 0, 0, 0, 0>>
    ELSE LET sc  == Scaled(x[1], x[2])
             top == Significand(sc[1], sc[2], 23)[1] - 2^23
             exp == Exponent(x[1], x[2]) + 1023
         IN  <<exp \div 16, (exp % 16) * 16 + top \div 2^19,
               (top \div 2^11) % 256, (top \div 8) % 256, (top % 8) * 32,
               0, 0, 0>>

\* format 'i': a 32-bit two's complement integer
PackInt(i) ==
    LET u == IF i < 0 THEN (i + 2^30) + 2^30 ELSE i
    IN  <<(IF i < 0 THEN 128 ELSE 0) + u \div 2^24, (u \div 65536) % 256,
          (u \div 256) % 256, u % 256>>

\* struct.pack('dfffi', timestamp, float(power), cadence, speed, heart_rate)
StructPack(byteorder, data) ==
    Native(byteorder, PackDouble(data.timestamp))
        \o Native(byteorder, PackFloat(data.power < 0,
              <<IF data.power < 0 THEN -data.power ELSE data.power, 1>>))
        \o Native(byteorder, PackFloat(FALSE, data.cadence))
        \o Native(byteorder, PackFloat(FALSE, data.speed))
        \o Native(byteorder, PackInt(data.heart_rate))

\* significand * 2^k, negated if asked: a fraction <<n, d>> where 32-bit
\* integers hold it, the triple <<significand, 2, k>> elsewhere (subnormal,
\* infinite and NaN patterns included)
Dyadic(negative, significand, k) ==
    LET x == IF k \in 0 .. 6 THEN <<significand * 2^k, 1>>
             ELSE IF k \in -29 .. -1 THEN Frac(significand, 2^(-k))
             ELSE <<significand, 2, k>>
    IN  IF negative THEN <<-x[1]>> \o Tail(x) ELSE x

UnpackFloat(b) ==
    LET exp  == (b[1] % 128) * 2 + b[2] \div 128
        frac == (b[2] % 128) * 65536 + b[3] * 256 + b[4]
    IN  IF exp = 0 /\ frac = 0 THEN FZero
        ELSE Dyadic(b[1] >= 128, frac + 2^23, exp - 150)

UnpackDouble(b) ==
    LET exp == (b[1] % 128) * 16 + b[2] \div 16
        top == (b[2] % 16) * 2^19 + b[3] * 2^11 + b[4] * 8 + b[5] \div 32
    IN  IF exp = 0 /\ top = 0 THEN FZero
        ELSE Dyadic(b[1] >= 128, top + 2^23, exp - 1046)

UnpackInt(b) ==
    LET u == (b[1] % 128) * 2^24 + b[2] * 65536 + b[3] * 256 + b[4]
    IN  IF b[1] >= 128 THEN (u - 2^30) - 2^30 ELSE u

\* struct.unpack('dfffi', message[:24])
StructUnpack(byteorder, message) ==
    LET field(a, b) == Native(byteorder, SubSeq(message, a, b))
    IN  [timestamp  |-> UnpackDouble(field(1, 8)),
         power      |-> UnpackFloat(field(9, 12)),
         cadence    |-> UnpackFloat(field(13, 16)),
         speed      |-> UnpackFloat(field(17, 20)),
         heart_rate |-> UnpackInt(field(21, 24))]

\* the snapshots packed: timestamps 0 and 1000.5, powers of either sign,
\* rates a single holds exactly (85, 7.5) and rates it does not (30.2,
\* 7.578)
Stamps == {FZero, <<2001, 2>>}

Powers == {-1, 0, 200}

Cadences == {FZero, <<85, 1>>}

Speeds == {FZero, <<151, 5>>, <<3789, 500>>, <<15, 2>>}

HeartRates == {0, 150}

\* data.to_binary() on a host of the given byte order
ToBinaryOn(byteorder, data) ==
    /\ decoded' = [parser |-> "CyclingData.to_binary", byteorder |-> byteorder,
                   data |-> data, out |-> StructPack(byteorder, data)]
    /\ UNCHANGED bridge_vars

\* WahooBridgeGUI.websocket_client takes a binary message of the bridge on
\* its own host (ws://localhost:8765)
WebsocketClient ==
    /\ decoded.parser = "CyclingData.to_binary"
    /\ Len(decoded.out) >= 24
    /\ decoded' = [parser |-> "WahooBridgeGUI.websocket_client",
                   byteorder |-> decoded.byteorder, data |-> decoded.data,
                   message |-> decoded.out,
                   out |-> StructUnpack(decoded.byteorder,
                                        SubSeq(decoded.out, 1, 24))]
    /\ UNCHANGED bridge_vars

NextWire ==
    \/ \E byteorder \in ByteOrders, timestamp \in Stamps, power \in Powers,
          cadence \in Cadences, speed \in Speeds, heart_rate \in HeartRates :
          ToBinaryOn(byteorder,
                     CyclingData(timestamp, power, cadence, speed, heart_rate))
    \/ WebsocketClient

SpecWire == Init /\ [][NextWire]_vars

\* the values of a snapshot, the integer power as the fraction it is packed as
ValuesOf(data) ==
    [timestamp |-> data.timestamp, power |-> <<data.power, 1>>,
     cadence |-> data.cadence, speed |-> data.speed,
     heart_rate |-> data.heart_rate]

\* a frame has been packed
Packed == decoded.parser = "CyclingData.to_binary"

\* C24: to_binary of any snapshot yields exactly 24 bytes laid out, little-
\* endian with no padding, as 8-byte double timestamp, 4-byte single power,
\* cadence and speed and 4-byte signed integer heart rate, and decoding the
\* 24 bytes with that layout reproduces the snapshot's values.
C24_LittleEndianRoundTrip ==
    Packed =>
        LET data == decoded.data
            out  == decoded.out
        IN  /\ Len(out) = 24
            /\ out = StructPack("little", data)
            /\ StructUnpack("little", out) = ValuesOf(data)

\* C25: cadence_rpm is 0 when no rotation is detected: a power-stream
\* sample whose crank revolution count has not advanced since the previous
\* sample results in a snapshot with cadence 0, and one whose wheel
\* revolution count has not advanced in a snapshot with speed 0.
C25_NoRotationIsZero ==
    [][ \A data \in RateSamples :
          PowerCallback(data) =>
            /\ (CrankSeeded(data) /\ CrankCount(data) = 0)
               => Scheduled.cadence = FZero
            /\ (WheelSeeded(data) /\ WheelCount(data) = <<0, 0>>)
               => Scheduled.speed = FZero ]_vars

\* C26: after stop() has been called on a handler, its inactivity detector
\* issues no further zero-update, also when stop() arrives while the
\* detector sleeps between two polls.
C26_NoZeroUpdateAfterStop ==
    [][ \A h \in Handlers : ZeroUpdate(h) => running[h] ]_vars

\* the tasks of a queue scheduled by the callback of handler h
TasksBy(queue, h) == {i \in 1 .. Len(queue) : queue[i].by = h}

\* C27: the updates of one stream are committed and broadcast in the order
\* their notifications arrived.  A callback's broadcast task waits behind
\* every task scheduled before it, the task committed is the oldest one,
\* and when the last waiting task of a stream is committed, the fields the
\* stream owns take the values of the notification that arrived last on it.
C27_StreamOrder ==
    [][ /\ \A data \in PowerPayloads :
              PowerCallback(data) =>
                /\ SubSeq(ready', 1, Len(ready)) = ready
                /\ TasksBy(ready', "kickr") = TasksBy(ready, "kickr")
                                                 \cup {Len(ready) + 1}
        /\ RunTask =>
              LET task == Head(ready)
              IN  /\ ready' = Tail(ready)
                  /\ current_data' = task.data
                  /\ (task.by = "kickr" /\ latest.by = "kickr"
                        /\ TasksBy(ready', "kickr") = {})
                     => /\ current_data'.power = latest.power
                        /\ current_data'.cadence = latest.cadence
                        /\ current_data'.speed = latest.speed
                  /\ (task.by = "tickr" /\ TasksBy(ready', "tickr") = {})
                     => current_data'.heart_rate = latest.heart_rate ]_vars

\* C27 witness: two power notifications have been handled, the first with
\* power 1 and the second with power -1, and their tasks wait in that
\* order.
C27_Witness ==
    /\ Len(ready) = 2
    /\ ready[1].by = "kickr" /\ ready[1].data.power = 1
    /\ ready[2].by = "kickr" /\ ready[2].data.power = -1

\* the bridge's Cycling-Power decoder was given a complete payload
CompletePower ==
    /\ decoded.parser = "CyclingPowerParser"
    /\ decoded.length = Len(decoded.full)

\* C28: for a complete Cycling-Power payload, power is the signed 16-bit
\* little-endian value of bytes 2-3, negative values included; wheel data
\* (32-bit count, 16-bit event time) is read at offset 4 + 1 [bit 0] +
\* 2 [bit 2] if bit 4 is set, crank data (16-bit count, 16-bit event time)
\* at that offset + 6 [bit 4] if bit 5 is set, for every combination of the
\* flag bits 0, 2, 4 and 5.
C28_CompleteLayout ==
    CompletePower =>
        LET data    == decoded.full
            fields  == decoded.out.fields
            flags   == data[1] + 256 * data[2]
            U16(o)  == data[o + 1] + 256 * data[o + 2]
            wheelAt == 4 + BitOf(flags, 1) + 2 * BitOf(flags, 4)
            crankAt == wheelAt + 6 * BitOf(flags, 16)
        IN  /\ ~decoded.out.raised
            /\ fields["power"] =
                  IF U16(2) >= 32768 THEN U16(2) - 65536 ELSE U16(2)
            /\ DOMAIN fields =
                  {"power"}
                    \cup (IF HasBit(flags, 16)
                          THEN {"wheel_revs", "wheel_time"} ELSE {})
                    \cup (IF HasBit(flags, 32)
                          THEN {"crank_revs", "crank_time"} ELSE {})
            /\ HasBit(flags, 16) =>
                  /\ fields["wheel_revs"] = <<U16(wheelAt), U16(wheelAt + 2)>>
                  /\ fields["wheel_time"] = U16(wheelAt + 4)
            /\ HasBit(flags, 32) =>
                  /\ fields["crank_revs"] = U16(crankAt)
                  /\ fields["crank_time"] = U16(crankAt + 2)

\* C28 witness: the complete payload with wheel and crank data and bytes
\* 38 ff for the power has been decoded: the power is -200 and the crank
\* count is the one of bytes 10-11.
C28_Witness ==
    /\ CompletePower
    /\ decoded.full = NegativePower
    /\ decoded.out.fields["power"] = -200
    /\ decoded.out.fields["crank_revs"] = 21 + 256 * 22

\* the Indoor-Bike decoder was given a complete payload
CompleteIndoorBike ==
    /\ decoded.parser = "logger.FTMSIndoorBikeParser"
    /\ decoded.length = Len(decoded.full)

\* C29: for a complete Indoor-Bike payload, speed is the 16-bit value at
\* offset 2 times 0.01 km/h; cadence (bit 2, 16 bits times 0.5 rpm) and
\* power (bit 6, signed 16 bits) are read at 4 plus the widths of the
\* flagged fields before them (average speed 2, cadence 2, average cadence
\* 2, total distance 3, resistance 2); nothing else is reported.
C29_CompleteIndoorBike ==
    CompleteIndoorBike =>
        LET data      == decoded.full
            fields    == decoded.out.fields
            flags     == data[1] + 256 * data[2]
            U16(o)    == data[o + 1] + 256 * data[o + 2]
            cadenceAt == 4 + 2 * BitOf(flags, 2)
            powerAt   == cadenceAt + 2 * BitOf(flags, 4) + 2 * BitOf(flags, 8)
                           + 3 * BitOf(flags, 16) + 2 * BitOf(flags, 32)
        IN  /\ ~decoded.out.raised
            /\ DOMAIN fields =
                  {"speed_kph"}
                    \cup (IF HasBit(flags, 4) THEN {"cadence_rpm"} ELSE {})
                    \cup (IF HasBit(flags, 64) THEN {"power_w"} ELSE {})
            /\ fields["speed_kph"] = Frac(U16(2), 100)
            /\ HasBit(flags, 4) =>
                  fields["cadence_rpm"] = Frac(U16(cadenceAt), 2)
            /\ HasBit(flags, 64) =>
                  fields["power_w"] =
                     IF U16(powerAt) >= 32768
                     THEN U16(powerAt) - 65536 ELSE U16(powerAt)

\* C29 witness: the complete payload with every field from average speed to
\* power has been decoded: the cadence comes from bytes 6-7, the power from
\* bytes 15-16.
C29_Witness ==
    /\ CompleteIndoorBike
    /\ decoded.full = IndoorBikeFull(126)
    /\ decoded.out.fields["cadence_rpm"] = Frac(17 + 256 * 18, 2)
    /\ decoded.out.fields["power_w"] = 26 + 256 * 27

\* C30: Indoor-Bike decode of a truncated payload stops at the first
\* flagged field it cannot read in full: a cadence or a power is reported
\* only if its field lies completely inside the bytes given, and it has the
\* value of that field, never one taken from the bytes of an earlier,
\* incomplete field.
C30_StopsAtIncompleteField ==
    decoded.parser = "logger.FTMSIndoorBikeParser" =>
        LET full      == decoded.full
            fields    == decoded.out.fields
            flags     == full[1] + 256 * full[2]
            U16(o)    == full[o + 1] + 256 * full[o + 2]
            cadenceAt == 4 + 2 * BitOf(flags, 2)
            powerAt   == cadenceAt + 2 * BitOf(flags, 4) + 2 * BitOf(flags, 8)
                           + 3 * BitOf(flags, 16) + 2 * BitOf(flags, 32)
        IN  /\ "cadence_rpm" \in DOMAIN fields =>
                  /\ decoded.length >= cadenceAt + 2
                  /\ fields["cadence_rpm"] = Frac(U16(cadenceAt), 2)
            /\ "power_w" \in DOMAIN fields =>
                  /\ decoded.length >= powerAt + 2
                  /\ fields["power_w"] =
                        IF U16(powerAt) >= 32768
                        THEN U16(powerAt) - 65536 ELSE U16(powerAt)

\* C31: a power-stream notification whose payload is malformed (the
\* decoder recognizes no field) degrades to no update: the snapshot
\* committed for it has the power, cadence, speed and heart rate of the
\* snapshot that was current before it.
C31_MalformedIsNoUpdate ==
    [][ \A data \in RateSamples :
          (PowerCallback(data) /\ CyclingPowerParse(data) = EmptyDict) =>
            /\ Scheduled.power = current_data.power
            /\ Scheduled.cadence = current_data.cadence
            /\ Scheduled.speed = current_data.speed
            /\ Scheduled.heart_rate = current_data.heart_rate ]_vars

\* the power a notification results in: the decoded one, or the current one
PowerOf(data) ==
    LET parsed == CyclingPowerParse(data)
    IN  IF "power" \in DOMAIN parsed THEN parsed["power"]
        ELSE current_data.power

\* power / 2.5 + speed * 2 kept within 0 .. 180, for a power and a speed
\* above 0
Clamped(power, speed) ==
    LET n == 2 * power * speed[2] + 10 * speed[1]
        d == 5 * speed[2]
    IN  IF n > 180 * d THEN <<180, 1>> ELSE Frac(n, d)

\* the counter-derived cadence of a crank sample is rejected: the tracker is
\* not seeded, a delta is zero, or the rate is not between 0 and 255
CrankRejected(data) ==
    \/ ~CrankSeeded(data)
    \/ CrankCount(data) = 0 \/ CrankTime(data) = 0
    \/ CrankCount(data) > 271
    \/ CrankCount(data) * 61440 >= 255 * CrankTime(data)

\* C32: a power sample without crank fields, with its power and the speed
\* known before it both above 0, sets the cadence to
\* clamp(power / 2.5 + speed * 2, 0, 180); with crank fields the estimate is
\* never applied: the cadence is the counter-derived rate, or the one
\* before if that rate is rejected.
C32_EstimateOnlyWithoutCrank ==
    [][ \A data \in RateSamples :
          PowerCallback(data) =>
            /\ (CrankOf(data)[1] = Unset /\ PowerOf(data) > 0
                  /\ FPos(current_data.speed))
               => Scheduled.cadence = Clamped(PowerOf(data), current_data.speed)
            /\ (CrankOf(data)[1] # Unset /\ CrankRejected(data))
               => Scheduled.cadence = current_data.cadence
            /\ (CrankOf(data)[1] # Unset /\ ~CrankRejected(data))
               => Scheduled.cadence =
                     Frac(CrankCount(data) * 61440, CrankTime(data)) ]_vars

\* C32 witness: a sample of power 1000 without crank fields met a known
\* speed of 7.578 km/h: 400 + 15.156 is cut to 180.
C32_Witness ==
    /\ ready # <<>>
    /\ Head(ready).data.power = 1000
    /\ Head(ready).data.speed = <<3789, 500>>
    /\ current_data.speed = <<3789, 500>>
    /\ Head(ready).data.cadence = <<180, 1>>

\* the handler of consumer c takes an inbound message, text or binary
Inbound(c) == Echo(c) \/ EchoBinary(c)

\* C34: each inbound message of a consumer is answered with exactly one pong
\* sent to that consumer only, and changes neither the snapshot nor the
\* membership of the registry.
C34_OnePongOnly ==
    [][ \A c \in Consumers :
          Inbound(c) =>
            /\ received' = [received EXCEPT ![c] = Append(received[c], "pong")]
            /\ current_data' = current_data
            /\ clients' = clients ]_vars

\* the detector has zeroed the snapshot and no power-stream notification has
\* been handled since
Zeroed == latest.src = "zero"

\* C35: once the inactivity detector has zeroed the snapshot, power, cadence
\* and speed are 0 in every snapshot committed until the next power-stream
\* notification is handled; a heart-rate update alone, whenever its callback
\* ran, never makes them nonzero again.
C35_ZeroedStaysZero ==
    [][ (Zeroed /\ ready # <<>> /\ Head(ready).by = "tickr" /\ RunTask)
           => /\ current_data'.power = 0
              /\ current_data'.cadence = FZero
              /\ current_data'.speed = FZero ]_vars

(***************************************************************************)
(* The clock between two callbacks of one pass of the event loop.          *)
(* time.time() has a far finer resolution than the poll interval: a        *)
(* snapshot built by a later callback carries a later timestamp than the   *)
(* snapshots still waiting in the ready queue, although no tenth of a      *)
(* second has passed and no detector sees its durations change.            *)
(***************************************************************************)
Moment ==
    /\ ready # <<>>
    /\ current_data' =
          [current_data EXCEPT !.timestamp = Older(@, MaxStampAge)]
    /\ ready' =
          [i \in DOMAIN ready |->
              [ready[i] EXCEPT !.data.timestamp = Older(@, MaxStampAge)]]
    /\ UNCHANGED <<links, decoded, fanout, handler_vars, trackers, latest>>

NextClock == Next \/ Moment

SpecClock == Init /\ [][NextClock]_vars

\* C36: the timestamps of successively committed snapshots never decrease:
\* a commit never replaces the snapshot by one that was built earlier, that
\* is, by one whose timestamp is older than the replaced snapshot's.
C36_TimestampsNeverDecrease ==
    [][ (RunTask \/ \E h \in Handlers : ZeroUpdate(h))
           => current_data'.timestamp <= current_data.timestamp ]_vars

(***************************************************************************)
(* The power handler with its inactivity detector: rate samples, fallback  *)
(* estimates and zero-updates in any order.                                *)
(***************************************************************************)
RangeSamples ==
    { CrankSample(65534, 1000), CrankSample(2, 1100), CrankSample(3, 2124),
      WheelSample(<<65535, 65535>>, 64512), WheelSample(<<0, 0>>, 0),
      WheelSample(<<7, 0>>, 7168),
      <<0, 0, 232, 3>> }      \* power 1000 alone: the estimate is clamped

NextRange ==
    \/ ConnectAndStream("kickr")
    \/ \E data \in RangeSamples : ready = <<>> /\ PowerCallback(data)
    \/ RunTask
    \/ ZeroUpdate("kickr")
    \/ ZeroIdle("kickr")
    \/ Tick

SpecRange == Init /\ [][NextRange]_vars

\* 0 <= cadence < 255 and 0 <= speed < 100
InRange(data) ==
    /\ data.cadence[1] >= 0 /\ FLess(data.cadence, <<255, 1>>)
    /\ data.speed[1] >= 0 /\ FLess(data.speed, <<100, 1>>)

\* C37: in every snapshot, committed or waiting for its broadcast, the
\* cadence is in [0, 255) and the speed is in [0, 100), whatever sequence of
\* crank and wheel samples (wrapped, repeated or out of order), fallback
\* estimates and zero-updates produced it.
C37_RatesInRange ==
    /\ InRange(current_data)
    /\ \A i \in DOMAIN ready : InRange(ready[i].data)

\* C37 witness: with a speed computed from wheel samples in the snapshot,
\* the cadence estimated from a power of 1000 W is committed at its cap.
C37_Witness ==
    /\ current_data.power = 1000
    /\ current_data.cadence = <<180, 1>>
    /\ FPos(current_data.speed)
    /\ last_wheel_time["kickr"] # Unset

(***************************************************************************)
(* The mock bridge in binary mode.  Its register_client is the bridge's;   *)
(* its broadcast_loop sends to the consumers one by one and discards the   *)
(* consumer whose send fails.                                              *)
(***************************************************************************)
\* for client in self.clients.copy(): one turn of the loop.
\* await client.send(message), and self.clients.discard(client) if it raises
BroadcastLoopSend(c) ==
    /\ c \in clients
    /\ IF conn[c] = "open"
       THEN /\ Len(received[c]) < MaxReceived
            /\ received' = [received EXCEPT ![c] = Sent(c, "frame")]
            /\ UNCHANGED clients
       ELSE /\ clients' = clients \ {c}
            /\ UNCHANGED received
    /\ UNCHANGED <<links, decoded, current_data, conn, ready, handler_vars, trackers,
                   latest>>

\* async for message in websocket ends; finally: self.clients.remove(websocket)
\* with the consumer no longer in the set: set.remove raises KeyError, which
\* leaves register_client
UnregisterRaises(c) ==
    /\ conn[c] = "closed"
    /\ c \notin clients
    /\ conn' = [conn EXCEPT ![c] = "raised"]
    /\ UNCHANGED <<links, decoded, current_data, clients, received, ready, handler_vars,
                   trackers, latest>>

NextMock ==
    \/ \E c \in Consumers : RegisterClient(c)
    \/ \E c \in Consumers : ConnectionLost(c)
    \/ \E c \in Consumers : UnregisterClient(c)
    \/ \E c \in Consumers : UnregisterRaises(c)
    \/ \E c \in Consumers : HandshakeFails(c)
    \/ \E c \in Consumers : Echo(c)
    \/ \E c \in Consumers : EchoBinary(c)
    \/ \E c \in Consumers : BroadcastLoopSend(c)

SpecMock == Init /\ [][NextMock]_vars

\* C38: unregistering a consumer whose connection has closed completes
\* without raising, also when a failed send of a broadcast has removed the
\* consumer from the registry before: no register_client ends by an
\* exception of its finally clause.
C38_UnregisterNeverRaises ==
    \A c \in Consumers : conn[c] # "raised"

(***************************************************************************)
(* connect_and_stream step by step: the connection is made, lost and made  *)
(* again, and stop() may arrive at any point of it.  Each action runs the  *)
(* coroutine from one suspension (client.connect(), asyncio.sleep(5), the  *)
(* keep-alive loop's asyncio.sleep(1)) to the next.                        *)
(***************************************************************************)
\* self.running = True; while self.running: ... await self.client.connect()
Start(h) ==
    /\ stream[h] = "none"
    /\ running' = [running EXCEPT ![h] = TRUE]
    /\ stream' = [stream EXCEPT ![h] = "connecting"]
    /\ UNCHANGED <<device, decoded, current_data, fanout, ready,
                   zero_check_task, sleep_left, time_since_update, trackers,
                   latest>>

\* if self.zero_check_task is None or self.zero_check_task.done():
\*     self.zero_check_task = asyncio.create_task(self.zero_detection_loop())
\* The new task starts its first sleep, or ends at once when self.running
\* is already False.
ZeroTaskEnsured(h) ==
    IF zero_check_task[h] \in {"None", "done"}
    THEN IF running[h]
         THEN /\ zero_check_task' = [zero_check_task EXCEPT ![h] = "sleeping"]
              /\ sleep_left' = [sleep_left EXCEPT ![h] = Sleep(PollInterval)]
         ELSE /\ zero_check_task' = [zero_check_task EXCEPT ![h] = "done"]
              /\ UNCHANGED sleep_left
    ELSE UNCHANGED <<zero_check_task, sleep_left>>

\* a variant under which C39 must fail: the loop is entered again whatever
\* self.running says
LoopAgain_Always(h) == "connecting"

\* while self.running: the next connection attempt, or the end of the loop
LoopAgain(h) == IF running[h] THEN "connecting" ELSE "done"

\* client.connect() returns connected: the zero detection task is ensured,
\* the notifications are subscribed, the keep-alive loop starts.  The
\* trackers are as the last connection left them.
Connected(h) ==
    /\ stream[h] = "connecting"
    /\ ZeroTaskEnsured(h)
    /\ stream' = [stream EXCEPT ![h] = "connected"]
    /\ latest' = IF h = "kickr" THEN [latest EXCEPT !.src = "connected"]
                 ELSE latest
    /\ UNCHANGED <<device, decoded, current_data, fanout, ready, running,
                   time_since_update, trackers>>

\* client.connect() returns connected but the service or the characteristic
\* is not found: await asyncio.sleep(5); continue
ServiceNotFound(h) ==
    /\ stream[h] = "connecting"
    /\ ZeroTaskEnsured(h)
    /\ stream' = [stream EXCEPT ![h] = "waiting"]
    /\ UNCHANGED <<device, decoded, current_data, fanout, ready, running,
                   time_since_update, trackers, latest>>

\* client.connect() returns unconnected (await asyncio.sleep(5); continue)
\* or raises (except: if self.running: await asyncio.sleep(5))
ConnectFailed(h) ==
    /\ stream[h] = "connecting"
    /\ \/ stream' = [stream EXCEPT ![h] = "waiting"]
       \/ /\ ~running[h]
          /\ stream' = [stream EXCEPT ![h] = LoopAgain(h)]
    /\ UNCHANGED <<device, decoded, current_data, fanout, ready, handler_vars,
                   trackers, latest>>

\* the device drops the connection: the keep-alive loop ends, stop_notify
\* and disconnect, then if self.running: await asyncio.sleep(5)
Disconnected(h) ==
    /\ stream[h] = "connected"
    /\ running[h]
    /\ stream' = [stream EXCEPT ![h] = "waiting"]
    /\ UNCHANGED <<device, decoded, current_data, fanout, ready, handler_vars,
                   trackers, latest>>

\* the keep-alive loop finds self.running False: stop_notify, disconnect,
\* no sleep, and the outer loop's test
Leave(h) ==
    /\ stream[h] = "connected"
    /\ ~running[h]
    /\ stream' = [stream EXCEPT ![h] = LoopAgain(h)]
    /\ UNCHANGED <<device, decoded, current_data, fanout, ready, handler_vars,
                   trackers, latest>>

\* asyncio.sleep(5) is over: the outer loop's test
Retry(h) ==
    /\ stream[h] = "waiting"
    /\ stream' = [stream EXCEPT ![h] = LoopAgain(h)]
    /\ UNCHANGED <<device, decoded, current_data, fanout, ready, handler_vars,
                   trackers, latest>>

(***************************************************************************)
(* The logger's WahooDevice.run and stop, by the same steps.               *)
(***************************************************************************)
\* self.running = True; while self.running: await self.connect_and_subscribe()
\* what the logger's device leaves alone: the bridge and its handlers
bridge_side ==
    <<current_data, fanout, ready, handler_vars, trackers, latest, stream,
      decoded>>

DeviceRun ==
    /\ device.at = "none"
    /\ device' = [running |-> TRUE, at |-> "connecting"]
    /\ UNCHANGED bridge_side

\* connect_and_subscribe returns True: the keep-alive loop starts
DeviceConnected ==
    /\ device.at = "connecting"
    /\ device' = [device EXCEPT !.at = "connected"]
    /\ UNCHANGED bridge_side

\* connect_and_subscribe returns False, whatever went wrong:
\* await asyncio.sleep(RECONNECT_DELAY_SECONDS); continue
DeviceConnectFailed ==
    /\ device.at = "connecting"
    /\ device' = [device EXCEPT !.at = "waiting"]
    /\ UNCHANGED bridge_side

\* the connection is lost while self.running: the keep-alive loop ends and
\* the reconnect delay starts
DeviceDisconnected ==
    /\ device.at = "connected"
    /\ device.running
    /\ device' = [device EXCEPT !.at = "waiting"]
    /\ UNCHANGED bridge_side

\* while self.running: the next attempt, or the end of run()
DeviceLoopAgain == IF device.running THEN "connecting" ELSE "done"

\* the keep-alive loop finds self.running False: no sleep, the outer test
DeviceLeave ==
    /\ device.at = "connected"
    /\ ~device.running
    /\ device' = [device EXCEPT !.at = DeviceLoopAgain]
    /\ UNCHANGED bridge_side

\* the reconnect delay is over: the outer loop's test
DeviceRetry ==
    /\ device.at = "waiting"
    /\ device' = [device EXCEPT !.at = DeviceLoopAgain]
    /\ UNCHANGED bridge_side

\* stop(): self.running = False; await self.disconnect()
DeviceStop ==
    /\ device.running
    /\ device' = [device EXCEPT !.running = FALSE]
    /\ UNCHANGED bridge_side

(***************************************************************************)
(* The power handler losing and regaining its connection, with crank and   *)
(* wheel samples arriving while it is connected, one notification per pass *)
(* of the event loop.                                                      *)
(***************************************************************************)
\* two crank samples one revolution and one second apart, and two wheel
\* samples seven revolutions and seven seconds apart
LinkSamples ==
    { CrankSample(2, 1100), CrankSample(3, 2124),
      WheelSample(<<0, 0>>, 0), WheelSample(<<7, 0>>, 7168) }

NextReconnect ==
    \/ Start("kickr")
    \/ Connected("kickr")
    \/ Disconnected("kickr")
    \/ Retry("kickr")
    \/ \E data \in LinkSamples :
          stream["kickr"] = "connected" /\ ready = <<>> /\ PowerCallback(data)
    \/ RunTask

SpecReconnect == Init /\ [][NextReconnect]_vars

\* C33: after a disconnect and reconnect the trackers are stale: the first
\* sample after the reconnect only reseeds its tracker and yields no rate,
\* so the snapshot it builds carries the cadence and the speed of the
\* current one.
C33_FirstSampleAfterReconnectSeeds ==
    [][ \A data \in LinkSamples :
          (latest.src = "connected" /\ PowerCallback(data))
             => /\ ready'[Len(ready')].data.cadence = current_data.cadence
                /\ ready'[Len(ready')].data.speed = current_data.speed ]_vars

(***************************************************************************)
(* The handlers and the logger's device over their whole life: started,    *)
(* connected, disconnected, reconnected and stopped at any point.  The     *)
(* power handler is notified of a power of 1 W while it is connected.      *)
(***************************************************************************)
\* the handlers followed: connect_and_stream and stop are the same code for
\* the heart-rate handler
Linked == {"kickr"}

NextLink ==
    \/ \E h \in Linked : Start(h)
    \/ \E h \in Linked : Connected(h)
    \/ \E h \in Linked : ServiceNotFound(h)
    \/ \E h \in Linked : ConnectFailed(h)
    \/ \E h \in Linked : Disconnected(h)
    \/ \E h \in Linked : Leave(h)
    \/ \E h \in Linked : Retry(h)
    \/ \E h \in Linked : Stop(h)
    \/ /\ stream["kickr"] = "connected" /\ ready = <<>>
       /\ PowerCallback(<<0, 0, 1, 0>>)
    \/ RunTask
    \/ \E h \in Linked : ZeroUpdate(h)
    \/ \E h \in Linked : ZeroIdle(h)
    \/ Tick
    \/ DeviceRun
    \/ DeviceConnected
    \/ DeviceConnectFailed
    \/ DeviceDisconnected
    \/ DeviceLeave
    \/ DeviceRetry
    \/ DeviceStop

SpecLink == Init /\ [][NextLink]_vars

\* What the event loop and the clock guarantee: a client.connect() returns
\* or raises (bleak gives up after its timeout), a sleep ends, a ready task
\* runs, and time passes however many notifications arrive.
LinkFairness ==
    /\ \A h \in Linked :
          /\ WF_vars(Connected(h) \/ ServiceNotFound(h) \/ ConnectFailed(h))
          /\ WF_vars(Leave(h))
          /\ WF_vars(Retry(h))
          /\ WF_vars(ZeroUpdate(h) \/ ZeroIdle(h))
    /\ WF_vars(RunTask)
    /\ SF_vars(Tick)
    /\ WF_vars(DeviceConnected \/ DeviceConnectFailed)
    /\ WF_vars(DeviceLeave)
    /\ WF_vars(DeviceRetry)

SpecLinkLive == SpecLink /\ LinkFairness

\* stop() was called on the handler after its connect_and_stream had begun
Stopped(h) == ~running[h] /\ stream[h] # "none"

\* stop() was called on the logger's device after its run() had begun
DeviceStopped == ~device.running /\ device.at # "none"

\* C39: after stop() the handler starts no further connection attempt, and
\* its connect-and-stream loop and its inactivity loop both end, wherever
\* stop() found the handler: connected, waiting to reconnect, or in a
\* connect; the same for the logger's device and its run loop.
C39_StopEndsTheLoops ==
    /\ [][ /\ \A h \in Linked :
                (Stopped(h) /\ stream[h] # "connecting")
                   => stream'[h] # "connecting"
           /\ (DeviceStopped /\ device.at # "connecting")
                   => device'.at # "connecting" ]_vars
    /\ \A h \in Linked :
          Stopped(h) ~> /\ stream[h] = "done"
                        /\ zero_check_task[h] \in {"None", "done"}
    /\ DeviceStopped ~> device.at = "done"

\* C39 witness: all loops have ended after a stop: the handler's with its
\* inactivity loop, after a zero-update, and the device's.
C39_Witness ==
    /\ Stopped("kickr") /\ stream["kickr"] = "done"
    /\ zero_check_task["kickr"] = "done"
    /\ latest.src = "zero"
    /\ DeviceStopped /\ device.at = "done"

=============================================================================
